---- MODULE Spec2Model ----
(***************************************************************************)
(* Cache manager and data-acquisition pipeline of CryptoSentimentAnalysis. *)
(*                                                                         *)
(* Time is counted in minutes.  A cache file holds the JSON document       *)
(* {"timestamp": <isoformat of the write time>, "data": <payload>}; the    *)
(* isoformat/fromisoformat pair is exact to the microsecond, so the write  *)
(* time read back is the write time, and the payloads the fetchers store   *)
(* (string-keyed dicts, lists of numbers and of strings) are the values    *)
(* JSON represents natively.                                               *)
(***************************************************************************)
EXTENDS Integers, Sequences, FiniteSets, TLC

VARIABLES
    now,      \* datetime.now(), in minutes
    files,    \* the cache directory: key |-> content of <key>.json
    writable, \* whether the cache directory takes the pipeline's writes
    pc,       \* where the pipeline stands: "idle" between calls
    calls,    \* the number of calls made to the pipeline so far
    hist,     \* get_historical_crypto_data: the call in progress or just finished
    all,      \* get_all_historical_data: the call in progress or just finished
    ev,       \* what the last step did, in order (observation only)
    latest,   \* key |-> payload of the last set not yet deleted (observation only)
    prevOp,   \* the cache operation before the last one (observation only)
    lim,      \* one RateLimiter and the clock it reads, in seconds
    load,     \* load_all_data: the session state and the cycle in progress
    calc      \* the last application of a pure function: inputs and result

vars == <<now, files, writable, pc, calls, hist, all, ev, latest, prevOp,
          lim, load, calc>>

-----------------------------------------------------------------------------
(* Program constants *)

CRYPTO_PRICES_MAX_AGE == 5
INDEX_MAX_AGE == 60
max_retries == 5
TOP_N_CRYPTO == 50
MIN_POINTS == 2
base_delay == 1
max_delay == 60

(* Bounds of the model *)
MaxQuotes == 1     \* rows of a historical crypto answer: 0..MaxQuotes
MaxPoints == 3     \* rows of an index or sentiment answer: 0..MaxPoints
MaxCalls == 2      \* calls made to the pipeline in one run

(* Python's None, and the two non-entry states of a cache file *)
None == [py |-> "None"]
NoFile == [file |-> "missing"]
Garbled == [file |-> "garbled"]

(* Files that json.load accepts but set() did not write: a document that   *)
(* is no JSON object, an object without 'data', an object without          *)
(* 'timestamp', an object whose 'timestamp' fromisoformat rejects          *)
NotAnObject == [file |-> "not_an_object"]
NoData(t) == [file |-> "no_data", timestamp |-> t]
NoTimestamp(data) == [file |-> "no_timestamp", data |-> data]
BadTimestamp(data) == [file |-> "bad_timestamp", data |-> data]

(* max_age_minutes: None is the empty set, a number m is {m} *)
NoMaxAge == {}
MaxAge(m) == {m}

(* The instants at which the pipeline reads the clock: the start, and one  *)
(* minute past each staleness bound after it.                              *)
Instants ==
    {0, CRYPTO_PRICES_MAX_AGE + 1, INDEX_MAX_AGE + 1}

Keys == {"crypto_prices", "sp500", "vix", "fear_greed",
         "crypto_historical_BTC", "crypto_historical_ETH"}

-----------------------------------------------------------------------------
(* CacheManager *)

IsEntry(c) == "file" \notin DOMAIN c
KindOf(c) == IF IsEntry(c) THEN "entry" ELSE c.file

\* get(): a missing file, an unreadable file and an entry older than
\* max_age_minutes all give None; the age test is strict (>)
\* variants of the age test: one that expires an entry exactly at its bound
\* already, one that reads the bound in seconds
ExpiredAtTheBound(c, max_age, t) == \E m \in max_age : t - c.timestamp >= m
ExpiredInSeconds(c, max_age, t) == \E m \in max_age : (t - c.timestamp) * 60 > m
Expired(c, max_age, t) == \E m \in max_age : t - c.timestamp > m

\* a variant of get that never looks at the age of an entry
CacheGetIgnoringAge(f, key, max_age, t) ==
    IF IsEntry(f[key]) THEN f[key].data ELSE None
\* the try block of get: json.load, the age test when max_age_minutes is
\* given, cached['data']; each of the three may raise
Raised(exception) == [raise |-> exception]
IsRaised(r) == "raise" \in DOMAIN r
GetBody(c, max_age, t) ==
    LET kind == KindOf(c)
    IN  IF kind = "garbled" THEN Raised("JSONDecodeError")
        ELSE IF max_age # NoMaxAge /\ kind = "not_an_object" THEN Raised("TypeError")
        ELSE IF max_age # NoMaxAge /\ kind = "no_timestamp" THEN Raised("KeyError")
        ELSE IF max_age # NoMaxAge /\ kind = "bad_timestamp" THEN Raised("ValueError")
        ELSE IF max_age # NoMaxAge /\ Expired(c, max_age, t) THEN None
        ELSE IF kind = "not_an_object" THEN Raised("TypeError")
        ELSE IF kind = "no_data" THEN Raised("KeyError")
        ELSE c.data

\* a variant of the handler that catches the decoding error only
CaughtDecodeErrorsOnly(r) ==
    IF IsRaised(r) /\ r = Raised("JSONDecodeError") THEN None ELSE r
\* except Exception: the error is logged and None returned
Caught(r) == IF IsRaised(r) THEN None ELSE r

CacheGet(f, key, max_age, t) ==
    IF f[key] = NoFile THEN None
    ELSE Caught(GetBody(f[key], max_age, t))

\* set(): open(cache_file, 'w') truncates the file, json.dump then writes the
\* whole record; every exception is logged and swallowed.
\*   "ok"          the record is written
\*   "open_fails"  open() raises: the file is left as it was
\*   "dump_fails"  json.dump raises after the truncation: a partial document
SetOutcomes == {"ok", "open_fails", "dump_fails"}
\* a write of the pipeline succeeds on a cache directory that takes writes
WriteOutcomes == IF writable THEN {"ok"} ELSE {"open_fails", "dump_fails"}

\* a variant of set that opens the file in append mode: a second document
\* after the first leaves a file json.load rejects
CacheSetAppending(f, key, data, t, outcome) ==
    CASE outcome = "ok" ->
            [f EXCEPT ![key] = IF f[key] = NoFile
                               THEN [timestamp |-> t, data |-> data]
                               ELSE Garbled]
      [] outcome = "open_fails" -> f
      [] outcome = "dump_fails" -> [f EXCEPT ![key] = Garbled]
CacheSet(f, key, data, t, outcome) ==
    CASE outcome = "ok" -> [f EXCEPT ![key] = [timestamp |-> t, data |-> data]]
      [] outcome = "open_fails" -> f
      [] outcome = "dump_fails" -> [f EXCEPT ![key] = Garbled]

\* the files the cache directory holds
Existing(f) == {k \in DOMAIN f : f[k] # NoFile}

\* delete(): os.remove when the file exists; every exception is logged and
\* swallowed.
\*   "ok"            the file is removed
\*   "remove_fails"  os.remove raises: the file is left as it was
RemoveOutcomes == {"ok", "remove_fails"}
CacheDelete(f, key, outcome) ==
    IF f[key] = NoFile \/ outcome = "remove_fails" THEN f
    ELSE [f EXCEPT ![key] = NoFile]

\* clear_all(): os.remove for the files of os.listdir, one after the other,
\* in the order of the listing; the first exception ends the loop and is
\* logged and swallowed.  removed is the set of files removed by then: all
\* of them when nothing raised.
CacheClearAll(f, removed) == [k \in DOMAIN f |-> IF k \in removed THEN NoFile ELSE f[k]]

-----------------------------------------------------------------------------
(* Values exchanged with the providers and the callers *)

Symbols == {"BTC", "ETH"}

HistKey(symbol) ==
    IF symbol = "BTC" THEN "crypto_historical_BTC" ELSE "crypto_historical_ETH"

Range(s) == {s[i] : i \in DOMAIN s}
Head_N(s, n) == SubSeq(s, 1, IF Len(s) < n THEN Len(s) ELSE n)      \* s[:n]

\* pandas objects: a Series is an index and its values, a DataFrame of the
\* historical fetch an index and the two columns
Series(index, values, dtype) == [index |-> index, values |-> values, dtype |-> dtype]
EmptySeries == Series(<<>>, <<>>, "object")
DataFrame(index, price, market_cap) ==
    [index |-> index, price |-> price, market_cap |-> market_cap]
EmptyDataFrame == DataFrame(<<>>, <<>>, <<>>)
IsEmpty(frame) == Len(frame.index) = 0

\* rows in ascending order of their date (sort_index; the dates are distinct)
SortIndex(rows) ==
    [i \in 1..Len(rows) |->
        CHOOSE r \in Range(rows) :
            Cardinality({q \in Range(rows) : q.date < r.date}) = i - 1]

\* The ranked listing: the first coins of the provider's ranking
Ranking == <<"BTC", "ETH">>
Listings == {SubSeq(Ranking, 1, n) : n \in 0..Len(Ranking)}
Coin(symbol) ==
    [symbol |-> symbol,
     quote |-> [USD |-> [price |-> IF symbol = "BTC" THEN 100 ELSE 20]],
     id |-> IF symbol = "BTC" THEN 1 ELSE 1027]

\* What a provider answers.  A request that raises a
\* requests.exceptions.RequestException (connection error, error status in
\* raise_for_status, a body that is not JSON) is "request_exception"; a body
\* without the expected fields (KeyError, TypeError) is "malformed".
ListingResponses ==
    {[kind |-> "request_exception"], [kind |-> "malformed"]}
    \cup {[kind |-> "ok", data |-> [i \in DOMAIN l |-> Coin(l[i])]] : l \in Listings}

Quotes(n) ==
    [i \in 1..n |->
        [time_open |-> i, quote |-> [USD |-> [close |-> 30 + i, market_cap |-> 600 + i]]]]
PrimaryResponses ==
    {[kind |-> "429"], [kind |-> "request_exception"], [kind |-> "malformed"]}
    \cup {[kind |-> "ok", quotes |-> Quotes(n)] : n \in 0..MaxQuotes}

Rows(n) == [i \in 1..n |-> [date |-> i, Close |-> 40 + i, Volume |-> 2]]
YfResponses ==
    {[kind |-> "exception"]} \cup {[kind |-> "ok", df |-> Rows(n)] : n \in 0..MaxPoints}
FallbackResponses ==
    {[kind |-> "exception"]} \cup {[kind |-> "ok", df |-> Rows(n)] : n \in 0..MaxQuotes}

\* the sentiment provider lists the newest score first
Items(n) == [i \in 1..n |-> [timestamp |-> n + 1 - i, value |-> 50 + i]]
FearGreedResponses ==
    {[kind |-> "exception"]} \cup {[kind |-> "ok", data |-> Items(n)] : n \in 0..MaxPoints}

-----------------------------------------------------------------------------
(* Events: what a step did, for the properties to read *)

\* the age, at the call, of the entry the cache holds for key: {} when it holds none
AgeOf(f, key, t) == IF IsEntry(f[key]) THEN {t - f[key].timestamp} ELSE {}
EvCall(fn, key, f, t) ==
    [e |-> "call", fn |-> fn, key |-> key, age |-> AgeOf(f, key, t)]
EvWait == [e |-> "rate_limiter.wait"]
EvRequest(to) == [e |-> "request", to |-> to]
EvResponse(from, answer) == [e |-> "response", from |-> from, answer |-> answer]
EvAttempt(loop, attempt) == [e |-> "attempt", loop |-> loop, attempt |-> attempt]
EvSet(key, data) == [e |-> "cache.set", key |-> key, data |-> data]
EvSleep(delay) == [e |-> "sleep", delay |-> delay]
EvServe(fn, key, f, t) ==       \* the cached payload of key is used as the result
    [e |-> "served", fn |-> fn, key |-> key, age |-> AgeOf(f, key, t)]
EvReturn(fn, key, src, value) ==
    [e |-> "return", fn |-> fn, key |-> key, src |-> src, value |-> value]
EvRaise(fn) == [e |-> "raise", fn |-> fn]

-----------------------------------------------------------------------------
(* exponential_backoff, before the jitter is added *)

RECURSIVE Pow2(_)
Pow2(n) == IF n = 0 THEN 1 ELSE 2 * Pow2(n - 1)
Min(a, b) == IF a < b THEN a ELSE b
\* variant: the delay is never capped
BackoffDelayUncapped(attempt) == base_delay * Pow2(attempt)
BackoffDelay(attempt) == Min(base_delay * Pow2(attempt), max_delay)

-----------------------------------------------------------------------------
(* get_top_crypto_data: the ranked listing, cached for 5 minutes.          *)
(* A fetcher is an operator of the cache, the clock, the provider's answer *)
(* and the outcome of its cache write; it yields the cache afterwards, how *)
(* it ended ("return" or "raise"), its value and its events.               *)

\* an insertion-ordered dict: its keys and, in the same order, their values
Dict(keys, vals) == [keys |-> keys, vals |-> vals]
EmptyDict == Dict(<<>>, <<>>)
DictPut(d, k, v) ==
    IF k \in Range(d.keys)
    THEN Dict(d.keys, [i \in DOMAIN d.vals |-> IF d.keys[i] = k THEN v ELSE d.vals[i]])
    ELSE Dict(Append(d.keys, k), Append(d.vals, v))

Outcome(f, out, value, events) ==
    [files |-> f, out |-> out, value |-> value, ev |-> events]

\* a variant that returns what was fetched without storing it
CacheResultsSkipped(f, key, cache_data, t, outcome) == [files |-> f, ev |-> <<>>]
\* a variant of set that lets the exception of a failed write out
SetRaisesOnFailure(outcome) ==
    IF outcome = "ok" THEN <<>> ELSE <<EvRaise("cache.set")>>
\* what leaves set() besides its return: nothing, the except clause logs the
\* exception of a failed write and ends the call
SetRaises(outcome) == <<>>

\* "Cache the results": every fetcher stores what it fetched before it returns it
CacheResults(f, key, cache_data, t, outcome) ==
    [files |-> CacheSet(f, key, cache_data, t, outcome),
     ev |-> <<EvSet(key, cache_data)>> \o SetRaises(outcome)]

CryptoData(data) ==
    LET coins == Head_N(data, TOP_N_CRYPTO)
    IN  Dict([i \in DOMAIN coins |-> coins[i].symbol],
             [i \in DOMAIN coins |->
                 [price |-> coins[i].quote.USD.price, id |-> coins[i].id]])

\* get_top_crypto_data up to rate_limiter.wait(): the cached listing is
\* returned, or the caller goes to sleep in the limiter ("wait")
TopCryptoHead(f, t) ==
    LET fn == "get_top_crypto_data"
        key == "crypto_prices"
        call == EvCall(fn, key, f, t)
        cached_data == CacheGet(f, key, MaxAge(CRYPTO_PRICES_MAX_AGE), t)
    IN  IF cached_data # None
        THEN LET value == Series(cached_data.keys, cached_data.vals, "object")
             IN  Outcome(f, "return", value,
                         <<call, EvServe(fn, key, f, t), EvReturn(fn, key, "cache", value)>>)
        ELSE Outcome(f, "wait", None, <<call, EvWait>>)

\* get_top_crypto_data from the return of rate_limiter.wait() on, over the
\* cache and at the time it finds then: the request, the write, the return
TopCryptoTail(f, t, resp, outcome) ==
    LET fn == "get_top_crypto_data"
        key == "crypto_prices"
        request == <<EvRequest("listing")>>
    IN  CASE resp.kind = "request_exception" ->
                Outcome(f, "return", EmptySeries,
                        request \o <<EvReturn(fn, key, "failure", EmptySeries)>>)
          [] resp.kind = "malformed" ->
                Outcome(f, "raise", None, request \o <<EvRaise(fn)>>)
          [] resp.kind = "ok" ->
                LET crypto_data == CryptoData(resp.data)
                    \* pd.Series({}) of a listing without coins has dtype object
                    value == Series(crypto_data.keys,
                                    [i \in DOMAIN crypto_data.vals |->
                                        crypto_data.vals[i].price],
                                    IF crypto_data.keys = <<>> THEN "object"
                                    ELSE "float64")
                    cached == CacheResults(f, key, crypto_data, t, outcome)
                IN  Outcome(cached.files, "return", value,
                            request \o cached.ev \o <<EvReturn(fn, key, "network", value)>>)

-----------------------------------------------------------------------------
(* get_sp500_data and get_vix_data: the same code on two keys and tickers  *)

\* a variant that uses whatever the cache holds, however short
IndexFetchTrustingCache(fn, key, f, t, resp, outcome) ==
    LET call == EvCall(fn, key, f, t)
        cached_data == CacheGet(f, key, MaxAge(INDEX_MAX_AGE), t)
        fetch == <<call, EvRequest(key)>>
        fail == <<EvReturn(fn, key, "failure", None)>>
    IN  IF cached_data # None
        THEN LET data == Series(cached_data.index, cached_data.values, "float64")
             IN  Outcome(f, "return", data,
                         <<call, EvServe(fn, key, f, t), EvReturn(fn, key, "cache", data)>>)
        ELSE IF resp.kind = "exception"
        THEN Outcome(f, "return", None, fetch \o fail)
        ELSE IF Len(resp.df) <= MIN_POINTS
        THEN Outcome(f, "return", None, fetch \o fail)
        ELSE LET df == SortIndex(resp.df)
                 index == [i \in DOMAIN df |-> df[i].date]
                 values == [i \in DOMAIN df |-> df[i].Close]
                 cache_data == [index |-> index, values |-> values]
                 close_prices == Series(index, values, "float64")
                 cached == CacheResults(f, key, cache_data, t, outcome)
             IN  Outcome(cached.files, "return", close_prices,
                         fetch \o cached.ev
                               \o <<EvReturn(fn, key, "network", close_prices)>>)
IndexFetch(fn, key, f, t, resp, outcome) ==
    LET call == EvCall(fn, key, f, t)
        cached_data == CacheGet(f, key, MaxAge(INDEX_MAX_AGE), t)
        fetch == <<call, EvRequest(key)>>
        fail == <<EvReturn(fn, key, "failure", None)>>
    IN  IF cached_data # None /\ Len(cached_data.values) > MIN_POINTS
        THEN LET data == Series(cached_data.index, cached_data.values, "float64")
             IN  Outcome(f, "return", data,
                         <<call, EvServe(fn, key, f, t), EvReturn(fn, key, "cache", data)>>)
        ELSE IF resp.kind = "exception"
        THEN Outcome(f, "return", None, fetch \o fail)
        ELSE IF Len(resp.df) <= MIN_POINTS
        THEN Outcome(f, "return", None, fetch \o fail)
        ELSE LET df == SortIndex(resp.df)
                 index == [i \in DOMAIN df |-> df[i].date]
                 values == [i \in DOMAIN df |-> df[i].Close]
                 cache_data == [index |-> index, values |-> values]
                 close_prices == Series(index, values, "float64")
                 cached == CacheResults(f, key, cache_data, t, outcome)
             IN  Outcome(cached.files, "return", close_prices,
                         fetch \o cached.ev
                               \o <<EvReturn(fn, key, "network", close_prices)>>)

GetSp500Data(f, t, resp, outcome) == IndexFetch("get_sp500_data", "sp500", f, t, resp, outcome)
GetVixData(f, t, resp, outcome) == IndexFetch("get_vix_data", "vix", f, t, resp, outcome)

-----------------------------------------------------------------------------
(* get_crypto_fear_greed: an answer without items has no 'timestamp'       *)
(* column, set_index raises and the fetch ends in None                     *)

GetCryptoFearGreed(f, t, resp, outcome) ==
    LET fn == "get_crypto_fear_greed"
        key == "fear_greed"
        call == EvCall(fn, key, f, t)
        cached_data == CacheGet(f, key, MaxAge(INDEX_MAX_AGE), t)
        fetch == <<call, EvRequest(key)>>
        fail == <<EvReturn(fn, key, "failure", None)>>
    IN  IF cached_data # None
        THEN LET data == Series(cached_data.index, cached_data.values, "float64")
             IN  Outcome(f, "return", data,
                         <<call, EvServe(fn, key, f, t), EvReturn(fn, key, "cache", data)>>)
        ELSE IF resp.kind = "exception"
        THEN Outcome(f, "return", None, fetch \o fail)
        ELSE IF Len(resp.data) = 0
        THEN Outcome(f, "return", None, fetch \o fail)
        ELSE LET records == [i \in DOMAIN resp.data |->
                                [date |-> resp.data[i].timestamp,
                                 value |-> resp.data[i].value]]
                 df == SortIndex(records)
                 index == [i \in DOMAIN df |-> df[i].date]
                 values == [i \in DOMAIN df |-> df[i].value]
                 cache_data == [index |-> index, values |-> values]
                 value == Series(index, values, "float64")
                 cached == CacheResults(f, key, cache_data, t, outcome)
             IN  Outcome(cached.files, "return", value,
                         fetch \o cached.ev \o <<EvReturn(fn, key, "network", value)>>)

-----------------------------------------------------------------------------
(* get_historical_crypto_data: cache, then max_retries attempts at the     *)
(* primary provider, then max_retries attempts at the fallback provider.   *)
(* One step of the model is the head of the function or one pass of a loop.*)

HistFn == "get_historical_crypto_data"

\* the cached payload is used when it is there and holds at least one price
HistCached(f, symbol, t) ==
    LET cached_data == CacheGet(f, HistKey(symbol), NoMaxAge, t)
    IN  cached_data # None /\ Len(cached_data.data.price) > 0

FrameOfCache(cached_data) ==
    DataFrame(cached_data.index, cached_data.data.price, cached_data.data.market_cap)

\* variants of the retry test of the primary loop: one pass fewer, every
\* answer of the provider retried, everything retried
PrimaryRetriesOneFewer(attempt, failure) ==
    attempt < max_retries - 2 /\ failure \in {"rate_limited", "request_exception"}
PrimaryRetriesEveryAnswer(attempt, failure) ==
    /\ attempt < max_retries - 1
    /\ failure \in {"rate_limited", "request_exception", "malformed", "empty"}
PrimaryRetriesEverything(attempt, failure) == attempt < max_retries - 1
\* the except clause of the primary loop: sleep and go round again, or break
PrimaryRetries(attempt, failure) ==
    attempt < max_retries - 1 /\ failure \in {"rate_limited", "request_exception"}

\* a variant that sleeps after the last pass too
FallbackRetriesOneMore(attempt) == attempt < max_retries
\* the fallback loop goes round again after an empty answer and after any exception
FallbackRetries(attempt) == attempt < max_retries - 1

Step(f, step, value, failure, events) ==
    [files |-> f, step |-> step, value |-> value, failure |-> failure, ev |-> events]

PrimaryFail(f, attempt, failure, events) ==
    IF PrimaryRetries(attempt, failure)
    THEN Step(f, "retry", None, failure, events \o <<EvSleep(BackoffDelay(attempt))>>)
    ELSE Step(f, "break", None, failure, events)

\* what the primary provider answered, as the properties name it
PrimaryAnswer(resp) ==
    IF resp.kind # "ok" THEN resp.kind
    ELSE IF Len(resp.quotes) = 0 THEN "empty" ELSE "data"

\* a pass of the primary loop from the return of get_top_crypto_data to
\* rate_limiter.wait(): the symbol is looked up in the listing; events are
\* those of the pass so far
PrimaryLookup(f, symbol, attempt, top_cryptos, events) ==
    IF top_cryptos.out = "raise"
    THEN PrimaryFail(f, attempt, "listing_error", events)
    ELSE IF symbol \notin Range(top_cryptos.value.index)
    THEN PrimaryFail(f, attempt, "not_listed", events)
    ELSE Step(f, "wait", None, "", events \o <<EvWait>>)

\* the pass from the return of rate_limiter.wait() on, over the cache and at
\* the time it finds then: the request, and the write and the return or the
\* failure
PrimaryRequest(f, t, symbol, attempt, resp, outcome, events) ==
    LET key == HistKey(symbol)
        answered == events \o <<EvRequest("primary"),
                                EvResponse("primary", PrimaryAnswer(resp))>>
    IN  CASE resp.kind = "429" -> PrimaryFail(f, attempt, "rate_limited", answered)
          [] resp.kind = "request_exception" ->
                PrimaryFail(f, attempt, "request_exception", answered)
          [] resp.kind = "malformed" -> PrimaryFail(f, attempt, "malformed", answered)
          [] resp.kind = "ok" ->
                IF Len(resp.quotes) = 0
                THEN PrimaryFail(f, attempt, "empty", answered)
                ELSE LET q == resp.quotes
                         dates == [i \in DOMAIN q |-> q[i].time_open]
                         prices == [i \in DOMAIN q |-> q[i].quote.USD.close]
                         market_caps == [i \in DOMAIN q |-> q[i].quote.USD.market_cap]
                         df == DataFrame(dates, prices, market_caps)
                         cache_data == [data |-> [price |-> prices,
                                                  market_cap |-> market_caps],
                                        index |-> dates]
                         cached == CacheResults(f, key, cache_data, t, outcome)
                     IN  Step(cached.files, "return", df, "",
                              answered \o cached.ev
                                       \o <<EvReturn(HistFn, key, "network", df)>>)

\* a variant that leaves a partial file behind when it gives up
FallbackFailLeavingPartialFile(f, symbol, attempt, failure, events) ==
    IF FallbackRetries(attempt)
    THEN Step(f, "retry", None, failure, events \o <<EvSleep(BackoffDelay(attempt))>>)
    ELSE Step([f EXCEPT ![HistKey(symbol)] = Garbled], "return", EmptyDataFrame, failure,
              events \o <<EvReturn(HistFn, HistKey(symbol), "failure", EmptyDataFrame)>>)
FallbackFail(f, symbol, attempt, failure, events) ==
    IF FallbackRetries(attempt)
    THEN Step(f, "retry", None, failure, events \o <<EvSleep(BackoffDelay(attempt))>>)
    ELSE Step(f, "return", EmptyDataFrame, failure,
              events \o <<EvReturn(HistFn, HistKey(symbol), "failure", EmptyDataFrame)>>)

FallbackAttempt(f, t, symbol, attempt, resp, outcome) ==
    LET key == HistKey(symbol)
        request == <<EvRequest("fallback")>>
        answered == request \o <<EvResponse("fallback", "data")>>
    IN  IF resp.kind = "exception"
        THEN FallbackFail(f, symbol, attempt, "exception",
                          request \o <<EvResponse("fallback", "exception")>>)
        ELSE IF Len(resp.df) = 0
        THEN FallbackFail(f, symbol, attempt, "empty",
                          request \o <<EvResponse("fallback", "empty")>>)
        ELSE LET df == resp.df
                 dates == [i \in DOMAIN df |-> df[i].date]
                 prices == [i \in DOMAIN df |-> df[i].Close]
                 market_caps == [i \in DOMAIN df |-> df[i].Close * df[i].Volume]
                 cache_data == [data |-> [price |-> prices, market_cap |-> market_caps],
                                index |-> dates]
                 value == DataFrame(dates, prices, market_caps)
                 cached == CacheResults(f, key, cache_data, t, outcome)
             IN  Step(cached.files, "return", value, "",
                      answered \o cached.ev \o <<EvReturn(HistFn, key, "network", value)>>)

\* the requests to the two historical providers and the backoff sleeps of a step
Trail(events) ==
    LET sel == SelectSeq(events,
                   LAMBDA x : x.e = "sleep"
                              \/ (x.e = "request" /\ x.to \in {"primary", "fallback"}))
    IN  [i \in DOMAIN sel |-> IF sel[i].e = "sleep" THEN "sleep" ELSE sel[i].to]

-----------------------------------------------------------------------------
(* The pipeline as a state machine *)

\* hist: symbol, phase ("none", "primary", "fallback", "done"), attempt (the loop
\* variable), trail (the historical requests and backoff sleeps of the loop the
\* call is in or has just left), seen (the kinds of answer the primary provider
\* gave in it), abandoned (the failure on which the primary loop was left),
\* result (where the returned frame came from)
NoHist ==
    [symbol |-> "", phase |-> "none", attempt |-> 0, trail |-> <<>>, seen |-> {},
     abandoned |-> "", result |-> ""]

\* all: the locals of get_all_historical_data
NoAll ==
    [phase |-> "none", symbols |-> <<>>, historical_data |-> EmptyDict,
     new_coins |-> <<>>, cached_coins |-> <<>>, missing_coins |-> <<>>,
     failed_coins |-> <<>>, i |-> 1, missing_count |-> 0]

Later(t) == {u \in Instants : u > t}
\* a backoff sleep ends at the instant it began or at the next one; past the
\* last instant the clock is read at, it ends at the instant it began
Wake(t) ==
    IF Later(t) = {} THEN {t}
    ELSE {u \in Instants : u >= t /\ \A v \in Later(t) : u <= v}

\* get_historical_crypto_data hands df to its caller: the loop of
\* get_all_historical_data files it as fetched or failed, a direct call ends
\* a variant of the loop body that puts the frame in the table before looking at it
FileOutcomeKeepingEmpty(a, symbol, df) ==
    IF df # None /\ ~IsEmpty(df)
    THEN [a EXCEPT !.historical_data = DictPut(@, symbol, df),
                   !.new_coins = Append(@, symbol),
                   !.i = @ + 1]
    ELSE [a EXCEPT !.historical_data = DictPut(@, symbol, df),
                   !.failed_coins = Append(@, symbol),
                   !.i = @ + 1]
\* a variant of the loop body that gives up on the first failed symbol
FileOutcomeAborting(a, symbol, df) ==
    IF df # None /\ ~IsEmpty(df)
    THEN [a EXCEPT !.historical_data = DictPut(@, symbol, df),
                   !.new_coins = Append(@, symbol),
                   !.i = @ + 1]
    ELSE [a EXCEPT !.failed_coins = Append(@, symbol),
                   !.i = Len(a.missing_coins) + 1]
\* the body of the loop over missing_coins, once get_historical_crypto_data has
\* returned df: the symbol is filed as fetched or as failed (data.empty on a
\* None raises, and the except clause files the symbol as failed too)
FileOutcome(a, symbol, df) ==
    IF df # None /\ ~IsEmpty(df)
    THEN [a EXCEPT !.historical_data = DictPut(@, symbol, df),
                   !.new_coins = Append(@, symbol),
                   !.i = @ + 1]
    ELSE [a EXCEPT !.failed_coins = Append(@, symbol),
                   !.i = @ + 1]

HistDone(frame, df) ==
    /\ hist' = frame
    /\ IF all.phase = "fetching"
       THEN /\ pc' = "all"
            /\ all' = FileOutcome(all, frame.symbol, df)
       ELSE /\ pc' = "idle"
            /\ all' = all

\* the head of get_historical_crypto_data
HistBegin(symbol) ==
    LET key == HistKey(symbol)
        call == EvCall(HistFn, key, files, now)
    IN  /\ UNCHANGED <<now, files, writable, latest, prevOp, lim, load, calc>>
        /\ IF HistCached(files, symbol, now)
           THEN LET df == FrameOfCache(CacheGet(files, key, NoMaxAge, now))
                IN  /\ ev' = <<call, EvServe(HistFn, key, files, now),
                               EvReturn(HistFn, key, "cache", df)>>
                    /\ HistDone([NoHist EXCEPT !.symbol = symbol, !.phase = "done",
                                               !.result = "cache"], df)
           ELSE /\ ev' = <<call>>
                /\ hist' = [NoHist EXCEPT !.symbol = symbol, !.phase = "primary"]
                /\ pc' = "hist"
                /\ all' = all

Tick ==
    /\ pc = "idle"
    /\ now' \in Later(now)
    /\ ev' = <<>>
    /\ hist' = NoHist
    /\ all' = NoAll
    /\ UNCHANGED <<files, writable, pc, calls, latest, prevOp, lim, load, calc>>

\* the cache directory takes no writes (read-only deployment, disk full): it
\* is found so before the first call of the pipeline
DiskFails ==
    /\ pc = "idle"
    /\ writable
    /\ calls = 0
    /\ writable' = FALSE
    /\ ev' = <<>>
    /\ hist' = NoHist
    /\ all' = NoAll
    /\ UNCHANGED <<now, files, pc, calls, latest, prevOp, lim, load, calc>>

AllFn == "get_all_historical_data"

Atomic(r) ==
    /\ calls < MaxCalls
    /\ calls' = calls + 1
    /\ files' = r.files
    /\ ev' = r.ev
    /\ hist' = NoHist
    /\ all' = NoAll
    /\ UNCHANGED <<now, writable, pc, latest, prevOp, lim, load, calc>>

\* A caller of rate_limiter.wait() sleeps in it (time.sleep) with the cache
\* and the clock left to themselves: pc is "listing_wait" while the wait of
\* get_top_crypto_data lasts, "primary_wait" while that of the primary request
\* lasts.  ev holds the events of the call, or of the pass, so far.

\* the sleep of rate_limiter.wait() ends at the instant it began or at the next
WaitSleeps ==
    /\ pc \in {"listing_wait", "primary_wait"}
    /\ now' \in Wake(now) \ {now}
    /\ UNCHANGED <<files, writable, pc, calls, hist, all, ev, latest, prevOp, lim,
                   load, calc>>

\* what a pass of the primary loop ends in: the next pass after the backoff
\* sleep, the fallback loop, or the return of the frame
PrimaryOutcome(r) ==
    LET requested == "primary" \in Range(Trail(r.ev))
        answers == {r.ev[i].answer : i \in {j \in DOMAIN r.ev : r.ev[j].e = "response"}}
        frame == [hist EXCEPT !.trail = @ \o Trail(r.ev),
                              !.seen = IF requested THEN @ \cup answers ELSE @]
    IN  /\ files' = r.files
        /\ ev' = r.ev
        /\ UNCHANGED <<writable, latest, prevOp, lim, load, calc>>
        /\ CASE r.step = "retry" ->
                  \* continue: the next pass, or the end of range(max_retries)
                  /\ hist' = IF hist.attempt + 1 < max_retries
                              THEN [frame EXCEPT !.attempt = @ + 1]
                              ELSE [frame EXCEPT !.phase = "fallback", !.attempt = 0,
                                                 !.abandoned = r.failure]
                  /\ now' \in Wake(now)
                  /\ pc' = "hist"
                  /\ all' = all
             [] r.step = "break" ->
                  /\ hist' = [frame EXCEPT !.phase = "fallback", !.attempt = 0,
                                           !.abandoned = r.failure]
                  /\ now' = now
                  /\ pc' = "hist"
                  /\ all' = all
             [] r.step = "return" ->
                  /\ HistDone([frame EXCEPT !.phase = "done",
                                            !.result = "primary"], r.value)
                  /\ now' = now

\* get_top_crypto_data has returned to the primary loop: the lookup, and the
\* wait before the request when the symbol is listed
PrimaryListed(top_cryptos, events) ==
    LET r == PrimaryLookup(top_cryptos.files, hist.symbol, hist.attempt, top_cryptos,
                           events)
    IN  IF r.step = "wait"
        THEN /\ files' = r.files
             /\ ev' = r.ev
             /\ pc' = "primary_wait"
             /\ UNCHANGED <<now, writable, hist, all, latest, prevOp, lim, load, calc>>
        ELSE PrimaryOutcome(r)

\* get_top_crypto_data has returned to get_all_historical_data: the symbols
\* are split into those the cache holds and the rest
AllListed(top_cryptos, events) ==
    LET g == top_cryptos.files
    IN  /\ files' = g
        /\ hist' = NoHist
        /\ UNCHANGED <<now, writable, latest, prevOp, lim, load, calc>>
        /\ IF top_cryptos.out = "raise"
           THEN /\ ev' = events \o <<EvRaise(AllFn)>>
                /\ all' = [NoAll EXCEPT !.phase = "raised"]
                /\ pc' = "idle"
           ELSE IF IsEmpty(top_cryptos.value)
           THEN /\ ev' = events \o <<EvReturn(AllFn, "", "failure", EmptyDict)>>
                /\ all' = [NoAll EXCEPT !.phase = "done"]
                /\ pc' = "idle"
           ELSE LET symbols == top_cryptos.value.index
                    cached_coins == SelectSeq(symbols, LAMBDA x : HistCached(g, x, now))
                    missing_coins == SelectSeq(symbols, LAMBDA x : ~HistCached(g, x, now))
                    frames == [i \in DOMAIN cached_coins |->
                                  FrameOfCache(CacheGet(g, HistKey(cached_coins[i]),
                                                        NoMaxAge, now))]
                    served == [i \in DOMAIN cached_coins |->
                                  EvServe(AllFn, HistKey(cached_coins[i]), g, now)]
                IN  /\ ev' = events \o served
                    /\ all' = [NoAll EXCEPT
                                 !.phase = "fetching",
                                 !.symbols = symbols,
                                 !.historical_data = Dict(cached_coins, frames),
                                 !.cached_coins = cached_coins,
                                 !.missing_coins = missing_coins]
                    /\ pc' = "all"

\* get_top_crypto_data has returned to the caller of the pipeline
TopListed(top_cryptos, events) ==
    /\ files' = top_cryptos.files
    /\ ev' = events
    /\ pc' = "idle"
    /\ hist' = NoHist
    /\ all' = NoAll
    /\ UNCHANGED <<now, writable, latest, prevOp, lim, load, calc>>

\* get_top_crypto_data returns to the one that called it
Listed(top_cryptos, events) ==
    IF hist.phase = "primary" THEN PrimaryListed(top_cryptos, events)
    ELSE IF all.phase = "listing" THEN AllListed(top_cryptos, events)
    ELSE TopListed(top_cryptos, events)

\* get_top_crypto_data once rate_limiter.wait() has returned
ListingFetch ==
    /\ pc = "listing_wait"
    /\ UNCHANGED calls
    /\ \E resp \in ListingResponses, outcome \in WriteOutcomes :
          LET top_cryptos == TopCryptoTail(files, now, resp, outcome)
          IN  Listed(top_cryptos, ev \o top_cryptos.ev)

CallTopCrypto ==
    /\ pc = "idle"
    /\ calls < MaxCalls
    /\ calls' = calls + 1
    /\ LET top_cryptos == TopCryptoHead(files, now)
       IN  IF top_cryptos.out = "wait"
           THEN /\ ev' = top_cryptos.ev
                /\ pc' = "listing_wait"
                /\ hist' = NoHist
                /\ all' = NoAll
                /\ UNCHANGED <<now, files, writable, latest, prevOp, lim, load, calc>>
           ELSE /\ hist' = NoHist
                /\ all' = NoAll
                /\ files' = top_cryptos.files
                /\ ev' = top_cryptos.ev
                /\ UNCHANGED <<now, writable, pc, latest, prevOp, lim, load, calc>>

CallSp500 ==
    /\ pc = "idle"
    /\ \E resp \in YfResponses, outcome \in WriteOutcomes :
          Atomic(GetSp500Data(files, now, resp, outcome))

CallVix ==
    /\ pc = "idle"
    /\ \E resp \in YfResponses, outcome \in WriteOutcomes :
          Atomic(GetVixData(files, now, resp, outcome))

CallFearGreed ==
    /\ pc = "idle"
    /\ \E resp \in FearGreedResponses, outcome \in WriteOutcomes :
          Atomic(GetCryptoFearGreed(files, now, resp, outcome))

CallHistorical ==
    /\ pc = "idle"
    /\ calls < MaxCalls
    /\ calls' = calls + 1
    /\ \E symbol \in Symbols : HistBegin(symbol)

\* the head of a pass of the primary loop: the call of get_top_crypto_data
StepPrimary ==
    /\ pc = "hist"
    /\ hist.phase = "primary"
    /\ UNCHANGED calls
    /\ LET top_cryptos == TopCryptoHead(files, now)
           events == <<EvAttempt("primary", hist.attempt)>> \o top_cryptos.ev
       IN  IF top_cryptos.out = "wait"
           THEN /\ ev' = events
                /\ pc' = "listing_wait"
                /\ UNCHANGED <<now, files, writable, hist, all, latest, prevOp, lim,
                               load, calc>>
           ELSE PrimaryListed(top_cryptos, events)

\* the pass once the rate_limiter.wait() before the request has returned
PrimaryFetch ==
    /\ pc = "primary_wait"
    /\ UNCHANGED calls
    /\ \E resp \in PrimaryResponses, outcome \in WriteOutcomes :
          PrimaryOutcome(PrimaryRequest(files, now, hist.symbol, hist.attempt,
                                        resp, outcome, ev))

StepFallback ==
    /\ pc = "hist"
    /\ hist.phase = "fallback"
    /\ \E resp \in FallbackResponses, outcome \in WriteOutcomes :
          LET r == FallbackAttempt(files, now, hist.symbol, hist.attempt, resp, outcome)
              frame == [hist EXCEPT
                          !.trail = IF hist.attempt = 0 THEN Trail(r.ev)
                                    ELSE @ \o Trail(r.ev),
                          !.seen = {}]
          IN  /\ files' = r.files
              /\ ev' = <<EvAttempt("fallback", hist.attempt)>> \o r.ev
              /\ UNCHANGED <<writable, calls, latest, prevOp, lim, load, calc>>
              /\ CASE r.step = "retry" /\ hist.attempt + 1 < max_retries ->
                        /\ hist' = [frame EXCEPT !.attempt = @ + 1]
                        /\ now' \in Wake(now)
                        /\ UNCHANGED <<pc, all>>
                   [] r.step = "retry" /\ hist.attempt + 1 >= max_retries ->
                        \* the end of range(max_retries): the function ends without
                        \* a return statement, its value is None
                        /\ HistDone([frame EXCEPT !.phase = "done", !.result = "None"],
                                    None)
                        /\ now' \in Wake(now)
                   [] r.step = "return" ->
                        /\ HistDone([frame EXCEPT
                                        !.phase = "done",
                                        !.result = IF IsEmpty(r.value)
                                                   THEN "empty" ELSE "fallback"],
                                    r.value)
                        /\ now' = now

-----------------------------------------------------------------------------
(* get_all_historical_data *)

\* the head of get_all_historical_data: the call of get_top_crypto_data
CallAll ==
    /\ pc = "idle"
    /\ calls < MaxCalls
    /\ calls' = calls + 1
    /\ LET top_cryptos == TopCryptoHead(files, now)
       IN  IF top_cryptos.out = "wait"
           THEN /\ ev' = top_cryptos.ev
                /\ pc' = "listing_wait"
                /\ hist' = NoHist
                /\ all' = [NoAll EXCEPT !.phase = "listing"]
                /\ UNCHANGED <<now, files, writable, latest, prevOp, lim, load, calc>>
           ELSE AllListed(top_cryptos, top_cryptos.ev)

\* one pass of the loop over missing_coins: the call of get_historical_crypto_data
AllFetch ==
    /\ pc = "all"
    /\ all.i <= Len(all.missing_coins)
    /\ UNCHANGED calls
    /\ HistBegin(all.missing_coins[all.i])

AllReturn ==
    /\ pc = "all"
    /\ all.i > Len(all.missing_coins)
    /\ all' = [all EXCEPT
                 !.phase = "done",
                 !.missing_count = Len(all.symbols) - Len(all.historical_data.keys)]
    /\ ev' = <<EvReturn(AllFn, "", "table", all.historical_data)>>
    /\ pc' = "idle"
    /\ hist' = NoHist
    /\ UNCHANGED <<now, files, writable, calls, latest, prevOp, lim, load, calc>>

-----------------------------------------------------------------------------
(* load_all_data: one acquisition cycle.  The three index fetchers run in  *)
(* one step (nothing else can happen between them), then                   *)
(* get_all_historical_data runs in its own steps, then the status is       *)
(* completed and the session state updated.                                *)

LoadFn == "load_all_data"
REFRESH_MINUTES == 720

NoStatus == [success |-> TRUE, messages |-> <<>>]
\* st.session_state after initialize_session_state; last_update is None or a time
NoSession ==
    [data_loaded |-> FALSE, last_update |-> {}, sp500_data |-> None, vix_data |-> None,
     fear_greed_data |-> None, crypto_historical_data |-> EmptyDict]
\* what load_all_data returns
Loaded(sp500_data, vix_data, fear_greed_data, crypto_historical_data, data_status) ==
    [sp500_data |-> sp500_data, vix_data |-> vix_data,
     fear_greed_data |-> fear_greed_data,
     crypto_historical_data |-> crypto_historical_data, data_status |-> data_status]
\* load: phase ("idle", "crypto" while get_all_historical_data is due or running),
\* session, result (the locals of the cycle; the returned tuple once returned is
\* TRUE), attempted (the index fetchers called in the cycle, in order)
NoLoad ==
    [phase |-> "idle", session |-> NoSession,
     result |-> Loaded(None, None, None, EmptyDict, NoStatus),
     returned |-> FALSE, refreshed |-> FALSE, attempted |-> <<>>,
     force_refresh |-> FALSE]

\* a variant that refreshes as well when the last cycle left no S&P 500 series
ShouldRefreshDataAfterFailure(session, force_refresh, t) ==
    IF force_refresh \/ ~session.data_loaded \/ session.sp500_data = None THEN TRUE
    ELSE IF session.last_update = {} THEN TRUE
    ELSE \E last_update \in session.last_update : t - last_update > REFRESH_MINUTES
\* should_refresh_data
ShouldRefreshData(session, force_refresh, t) ==
    IF force_refresh \/ ~session.data_loaded THEN TRUE
    ELSE IF session.last_update = {} THEN TRUE
    ELSE \E last_update \in session.last_update : t - last_update > REFRESH_MINUTES

\* a variant that appends the message and leaves success as it was
FlagKeepingSuccess(data_status, failed, message) ==
    IF failed
    THEN [data_status EXCEPT !.messages = Append(@, message)]
    ELSE data_status
\* data_status["success"] = False; data_status["messages"].append(message)
Flag(data_status, failed, message) ==
    IF failed
    THEN [success |-> FALSE, messages |-> Append(data_status.messages, message)]
    ELSE data_status

\* what the index and sentiment providers answer in a cycle: an error, nothing,
\* or a full series
LoadYfResponses ==
    {r \in YfResponses : r.kind = "exception" \/ Len(r.df) \in {0, MaxPoints}}
LoadFearGreedResponses ==
    {r \in FearGreedResponses : r.kind = "exception" \/ Len(r.data) \in {0, MaxPoints}}

\* the head of load_all_data, up to the call of get_all_historical_data
LoadMarket ==
    /\ pc = "idle"
    /\ load.phase = "idle"
    /\ hist' = NoHist
    /\ all' = NoAll
    /\ UNCHANGED <<now, writable, pc, latest, prevOp, lim, calc>>
    /\ \E force_refresh \in BOOLEAN :
        IF ~ShouldRefreshData(load.session, force_refresh, now)
        THEN /\ load' = [load EXCEPT
                            !.result = Loaded(load.session.sp500_data,
                                              load.session.vix_data,
                                              load.session.fear_greed_data,
                                              load.session.crypto_historical_data,
                                              NoStatus),
                            !.returned = TRUE, !.refreshed = FALSE,
                            !.attempted = <<>>, !.force_refresh = force_refresh]
             /\ ev' = <<EvReturn(LoadFn, "", "session", NoStatus)>>
             /\ UNCHANGED <<files, calls>>
        ELSE /\ calls < MaxCalls
             /\ calls' = calls + 1
             /\ \E sresp \in LoadYfResponses, vresp \in LoadYfResponses,
                   fresp \in LoadFearGreedResponses, outcome \in WriteOutcomes :
                  LET sp500 == GetSp500Data(files, now, sresp, outcome)
                      vix == GetVixData(sp500.files, now, vresp, outcome)
                      fear_greed == GetCryptoFearGreed(vix.files, now, fresp, outcome)
                      s1 == Flag(NoStatus, sp500.value = None,
                                 "Failed to fetch S&P 500 data")
                      s2 == Flag(s1, vix.value = None, "Failed to fetch VIX data")
                      s3 == Flag(s2, fear_greed.value = None,
                                 "Failed to fetch Fear & Greed data")
                  IN  /\ files' = fear_greed.files
                      /\ ev' = sp500.ev \o vix.ev \o fear_greed.ev
                      /\ load' = [load EXCEPT
                                    !.phase = "crypto",
                                    !.result = Loaded(sp500.value, vix.value,
                                                      fear_greed.value, EmptyDict, s3),
                                    !.returned = FALSE, !.refreshed = TRUE,
                                    !.attempted = <<"get_sp500_data", "get_vix_data",
                                                    "get_crypto_fear_greed">>,
                                    !.force_refresh = force_refresh]

\* crypto_historical_data = get_all_historical_data()
LoadCallAll ==
    /\ load.phase = "crypto"
    /\ all.phase = "none"
    /\ CallAll

\* the rest of load_all_data, once get_all_historical_data has returned or raised
LoadEnd ==
    /\ pc = "idle"
    /\ load.phase = "crypto"
    /\ all.phase \in {"done", "raised"}
    /\ LET crypto_historical_data ==
               IF all.phase = "raised" THEN EmptyDict ELSE all.historical_data
           data_status ==
               IF all.phase = "raised"
               THEN Flag(load.result.data_status, TRUE,
                         "Failed to fetch cryptocurrency data: 'data'")
               ELSE Flag(load.result.data_status, crypto_historical_data = EmptyDict,
                         "Failed to fetch cryptocurrency data")
           result == [load.result EXCEPT
                         !.crypto_historical_data = crypto_historical_data,
                         !.data_status = data_status]
       IN  /\ load' = [load EXCEPT
                          !.phase = "idle",
                          !.result = result,
                          !.returned = TRUE,
                          !.session = [data_loaded |-> TRUE, last_update |-> {now},
                                       sp500_data |-> result.sp500_data,
                                       vix_data |-> result.vix_data,
                                       fear_greed_data |-> result.fear_greed_data,
                                       crypto_historical_data |-> crypto_historical_data]]
           /\ ev' = <<EvReturn(LoadFn, "", "cycle", data_status)>>
    /\ UNCHANGED <<now, files, writable, pc, calls, hist, all, latest, prevOp, lim, calc>>

\* time passes between two calls of load_all_data
LoadTick ==
    /\ load.phase = "idle"
    /\ Tick

\* the page is left open after its first cycle and used again when the
\* refresh threshold is reached, to the minute or one minute past it; one
\* more call of the pipeline is followed from there
LoadWait ==
    /\ pc = "idle"
    /\ load.phase = "idle"
    /\ load.session.data_loaded
    /\ now < REFRESH_MINUTES
    /\ \E last_update \in load.session.last_update :
          now' \in {last_update + REFRESH_MINUTES, last_update + REFRESH_MINUTES + 1}
    /\ calls' = MaxCalls - 1
    /\ ev' = <<>>
    /\ hist' = NoHist
    /\ all' = NoAll
    /\ UNCHANGED <<files, writable, pc, latest, prevOp, lim, load, calc>>

-----------------------------------------------------------------------------
\* no rate limiter under study, no calculation under study
NoLimiter == [phase |-> "none"]
NoCalc == [fn |-> "none"]

-----------------------------------------------------------------------------------------------------------------------------------------------------
(* RateLimiter.  rate_limiter is a module-level object.  A script calls    *)
(* wait() in sequence, each call after the one before has returned; the    *)
(* sessions of the app, one thread each, call it on the same limiter, and  *)
(* wait() takes no lock, so a thread can be anywhere in it while another   *)
(* runs it.  Each statement that reads or writes request_times is a step.  *)
(* The clock of the limiter is time.time(), in seconds; time.sleep(d)      *)
(* returns after d seconds or a little later.                              *)

WINDOW == 60
MaxWaits == 4                   \* calls of wait() in one run
Rates == {2, 3}                 \* requests_per_minute of the limiter under study
Overshoots == {0, 1}            \* by how much a sleep overruns
IdleTimes == {0, 1, 30, 61}     \* the time between two calls of wait()
Callers == {1, 2}               \* the threads that call wait()

\* a limiter that does not space its callers
IntervalNone(requests_per_minute) == 0
\* a limiter that spaces its callers as one for a request more per minute
IntervalTooShort(requests_per_minute) == WINDOW \div (requests_per_minute + 1)
\* self.interval = 60.0 / requests_per_minute
Interval(requests_per_minute) == WINDOW \div requests_per_minute

\* wait_time = 60 - (now - self.request_times[0])
WaitTime(request_times, t) == WINDOW - (t - Head(request_times))

\* where a caller is: out of wait(); about to run a statement of it, with the
\* value of its local now,
\*   "while"   the test of self.request_times in the loop condition (line 24)
\*   "head"    self.request_times[0] in the loop condition (line 24)
\*   "pop"     self.request_times.popleft() (line 25)
\*   "len"     len(self.request_times) (line 28)
\*   "oldest"  self.request_times[0] of the windowed cap (line 29)
\*   "append"  self.request_times.append(time.time()) (line 35);
\* or asleep, in time.sleep(wait_time) ("capped") or in
\* time.sleep(self.interval) ("spacing"), with the time at which that sleep is
\* due to end
Out == [at |-> "out", wake |-> 0]
Asleep(at, wake) == [at |-> at, wake |-> wake]
Inside(l) == {c \in Callers : l.callers[c].at # "out"}
Sleepers(l) == {c \in Callers : l.callers[c].at \in {"capped", "spacing"}}
Running(l) == Inside(l) \ Sleepers(l)
\* the sleeper whose sleep ends first wakes first
Due(l, c) ==
    /\ c \in Sleepers(l)
    /\ \A d \in Sleepers(l) : l.callers[c].wake <= l.callers[d].wake
\* a sleep due to end at wake, overrun by o, ends at the clock or later
WokenAt(l, c, o) ==
    IF l.callers[c].wake + o > l.clock THEN l.callers[c].wake + o ELSE l.clock
\* a thread between two statements of wait() gets on within the second: no
\* sleep ends later than now while one is there
Wakes(l, c, o) == Due(l, c) /\ (Running(l) = {} \/ WokenAt(l, c, o) = l.clock)
\* an IndexError leaves wait(): the deque was emptied by another thread
Raise(l, c) == [l EXCEPT !.raised = @ + 1, !.callers[c] = Out]

\* rate_limiter = RateLimiter(n)
LimiterInit ==
    /\ lim = NoLimiter
    /\ \E n \in Rates :
          lim' = [phase |-> "ready", requests_per_minute |-> n, clock |-> 0,
                  request_times |-> <<>>, completions |-> <<>>, capped |-> FALSE,
                  idled |-> FALSE, overlapped |-> FALSE, raised |-> 0,
                  callers |-> [c \in Callers |-> Out]]
    /\ UNCHANGED <<now, files, writable, pc, calls, hist, all, ev, latest, prevOp,
                   load, calc>>

\* a thread calls wait(): now = time.time()
LimiterWait ==
    /\ lim.phase = "ready"
    /\ Len(lim.completions) + lim.raised + Cardinality(Inside(lim)) < MaxWaits
    /\ \E c \in Callers :
          /\ lim.callers[c].at = "out"
          /\ \A d \in Callers : lim.callers[d].at = "out" => c <= d
          /\ lim' = [lim EXCEPT !.callers[c] = Asleep("while", lim.clock),
                                !.overlapped = @ \/ Inside(lim) # {},
                                !.idled = FALSE]
    /\ UNCHANGED <<now, files, writable, pc, calls, hist, all, ev, latest, prevOp,
                   load, calc>>

\* while self.request_times ...: an empty deque ends the loop
LimiterWhile ==
    /\ lim.phase = "ready"
    /\ \E c \in Callers :
          /\ lim.callers[c].at = "while"
          /\ lim' = [lim EXCEPT
                        !.callers[c] = Asleep(IF lim.request_times = <<>> THEN "len"
                                              ELSE "head",
                                              lim.callers[c].wake)]
    /\ UNCHANGED <<now, files, writable, pc, calls, hist, all, ev, latest, prevOp,
                   load, calc>>

\* ... and now - self.request_times[0] > 60: on to popleft(), or the end of the
\* loop; on a deque emptied since the test before, IndexError
LimiterHead ==
    /\ lim.phase = "ready"
    /\ \E c \in Callers :
          /\ lim.callers[c].at = "head"
          /\ LET t == lim.callers[c].wake
             IN  lim' = IF lim.request_times = <<>> THEN Raise(lim, c)
                        ELSE [lim EXCEPT
                                 !.callers[c] =
                                     Asleep(IF t - Head(lim.request_times) > WINDOW
                                            THEN "pop" ELSE "len", t)]
    /\ UNCHANGED <<now, files, writable, pc, calls, hist, all, ev, latest, prevOp,
                   load, calc>>

\* self.request_times.popleft(), of whatever stamp is the oldest by now; on a
\* deque another thread has emptied it raises IndexError
LimiterPop ==
    /\ lim.phase = "ready"
    /\ \E c \in Callers :
          /\ lim.callers[c].at = "pop"
          /\ lim' = IF lim.request_times = <<>> THEN Raise(lim, c)
                    ELSE [lim EXCEPT !.request_times = Tail(@),
                                     !.callers[c] = Asleep("while", lim.callers[c].wake)]
    /\ UNCHANGED <<now, files, writable, pc, calls, hist, all, ev, latest, prevOp,
                   load, calc>>

\* if len(self.request_times) >= self.requests_per_minute
LimiterLen ==
    /\ lim.phase = "ready"
    /\ \E c \in Callers :
          /\ lim.callers[c].at = "len"
          /\ lim' = [lim EXCEPT
                        !.callers[c] =
                            Asleep(IF Len(lim.request_times) >= lim.requests_per_minute
                                   THEN "oldest" ELSE "append",
                                   lim.callers[c].wake)]
    /\ UNCHANGED <<now, files, writable, pc, calls, hist, all, ev, latest, prevOp,
                   load, calc>>

\* wait_time = 60 - (now - self.request_times[0]), of whatever stamp is the
\* oldest by now; if wait_time > 0: time.sleep(wait_time)
LimiterOldest ==
    /\ lim.phase = "ready"
    /\ \E c \in Callers :
          /\ lim.callers[c].at = "oldest"
          /\ LET t == lim.callers[c].wake
             IN  lim' = IF lim.request_times = <<>> THEN Raise(lim, c)
                        ELSE IF WaitTime(lim.request_times, t) > 0
                        THEN [lim EXCEPT
                                 !.callers[c] =
                                     Asleep("capped",
                                            lim.clock + WaitTime(lim.request_times, t)),
                                 !.capped = TRUE]
                        ELSE [lim EXCEPT !.callers[c] = Asleep("append", t)]
    /\ UNCHANGED <<now, files, writable, pc, calls, hist, all, ev, latest, prevOp,
                   load, calc>>

\* time.sleep(wait_time) returns
LimiterWake ==
    /\ lim.phase = "ready"
    /\ \E c \in Callers, o \in Overshoots :
          /\ lim.callers[c].at = "capped"
          /\ Wakes(lim, c, o)
          /\ LET t == WokenAt(lim, c, o)
             IN  lim' = [lim EXCEPT !.clock = t, !.callers[c] = Asleep("append", t)]
    /\ UNCHANGED <<now, files, writable, pc, calls, hist, all, ev, latest, prevOp,
                   load, calc>>

\* self.request_times.append(time.time()), then time.sleep(self.interval)
LimiterStamp ==
    /\ lim.phase = "ready"
    /\ \E c \in Callers :
          /\ lim.callers[c].at = "append"
          /\ lim' = [lim EXCEPT
                        !.request_times = Append(@, lim.clock),
                        !.callers[c] =
                            Asleep("spacing",
                                   lim.clock + Interval(lim.requests_per_minute))]
    /\ UNCHANGED <<now, files, writable, pc, calls, hist, all, ev, latest, prevOp,
                   load, calc>>

\* time.sleep(self.interval) has returned: wait() returns
LimiterReturn ==
    /\ lim.phase = "ready"
    /\ \E c \in Callers, o \in Overshoots :
          /\ lim.callers[c].at = "spacing"
          /\ Wakes(lim, c, o)
          /\ LET t == WokenAt(lim, c, o)
             IN  lim' = [lim EXCEPT
                            !.clock = t,
                            !.completions = Append(@, t),
                            !.callers[c] = Out]
    /\ UNCHANGED <<now, files, writable, pc, calls, hist, all, ev, latest, prevOp,
                   load, calc>>

\* time passes with no caller waking: between two calls of a thread, or
\* before another thread calls
LimiterIdle ==
    /\ lim.phase = "ready"
    /\ ~lim.idled
    /\ Running(lim) = {}
    /\ \E d \in IdleTimes :
          /\ \A c \in Sleepers(lim) : lim.clock + d <= lim.callers[c].wake
          /\ lim' = [lim EXCEPT !.clock = @ + d, !.idled = TRUE]
    /\ UNCHANGED <<now, files, writable, pc, calls, hist, all, ev, latest, prevOp,
                   load, calc>>

-----------------------------------------------------------------------------
(* exponential_backoff on its own, called as the retry loops call it: for  *)
(* attempt 0, 1, 2, ...  The delay is in seconds, the jitter and the value *)
(* returned in milliseconds; random.uniform(0, 0.1 * delay) is one of     *)
(* JitterSteps + 1 evenly spaced values from 0 to a tenth of the delay.    *)

MaxAttempt == 8
JitterSteps == 20
MS == 1000

\* jitter = random.uniform(0, 0.1 * delay), the j-th of the values, in ms
Jitter(delay, j) == (j * (MS \div 10) * delay) \div JitterSteps

\* return delay + jitter, in ms
ExponentialBackoff(attempt, j) == BackoffDelay(attempt) * MS + Jitter(BackoffDelay(attempt), j)

\* the first call of a loop: exponential_backoff(0)
BackoffFirst ==
    /\ calc.fn # "exponential_backoff"
    /\ \E j \in 0..JitterSteps :
          calc' = [fn |-> "exponential_backoff", attempt |-> 0,
                   delay |-> BackoffDelay(0), before |-> BackoffDelay(0),
                   returned |-> ExponentialBackoff(0, j)]
    /\ UNCHANGED <<now, files, writable, pc, calls, hist, all, ev, latest, prevOp,
                   lim, load>>

\* the call of the next pass: exponential_backoff(attempt + 1)
BackoffNext ==
    /\ calc.fn = "exponential_backoff"
    /\ calc.attempt < MaxAttempt
    /\ \E j \in 0..JitterSteps :
          calc' = [fn |-> "exponential_backoff", attempt |-> calc.attempt + 1,
                   delay |-> BackoffDelay(calc.attempt + 1), before |-> calc.delay,
                   returned |-> ExponentialBackoff(calc.attempt + 1, j)]
    /\ UNCHANGED <<now, files, writable, pc, calls, hist, all, ev, latest, prevOp,
                   lim, load>>

-----------------------------------------------------------------------------
(* Tables of the analysis: a date index (days counted from a Monday, one   *)
(* row a day at most), named columns, and cells that hold a value, {v}, or *)
(* are missing, {} (NaN).                                                  *)

NaN == {}
Frame(index, columns, data) == [index |-> index, columns |-> columns, data |-> data]
\* pd.DataFrame()
EmptyFrame == Frame({}, {}, <<>>)
\* df.empty
FrameIsEmpty(df) == df.index = {} \/ df.columns = {}
\* index.dayofweek: Monday is 0
DayOfWeek(d) == d % 7

First(days) == CHOOSE d \in days : \A e \in days : d <= e
Last(days) == CHOOSE d \in days : \A e \in days : e <= d

\* the rows of df on the given days
RowsOn(df, days) ==
    Frame(days, df.columns, [c \in df.columns |-> [d \in days |-> df.data[c][d]]])

\* A label of an index is a timestamp: a day and a time of day.  The label d
\* below StampBase is midnight of day d, the label h * StampBase + d is h hours
\* into day d.
StampBase == 100
Stamp(d, h) == h * StampBase + d
DayOf(t) == t % StampBase
HourOf(t) == t \div StampBase

\* the bins of resample('D').last(): one row per day that has a row, holding in
\* each column the value of the day's latest row that has one
DailyLast(df) ==
    LET days == {DayOf(t) : t \in df.index}
    IN  Frame(days, df.columns,
              [c \in df.columns |->
                  [d \in days |->
                      LET known == {t \in df.index : DayOf(t) = d /\ df.data[c][t] # NaN}
                      IN  IF known = {} THEN NaN
                          ELSE df.data[c][CHOOSE t \in known :
                                             \A u \in known : HourOf(u) <= HourOf(t)]]])

\* df.resample('D').last(): every day from the first to the last, the day's
\* last value, missing on the days without a row
Resample(df) ==
    IF df.index = {} THEN df
    ELSE LET daily == DailyLast(df)
             days == First(daily.index)..Last(daily.index)
         IN  Frame(days, df.columns,
                   [c \in df.columns |->
                       [d \in days |->
                           IF d \in daily.index THEN daily.data[c][d] ELSE NaN]])

\* variant: bfill(), a missing cell takes the next value after it
Bfill(df) ==
    Frame(df.index, df.columns,
          [c \in df.columns |->
              [d \in df.index |->
                  LET known == {e \in df.index : e >= d /\ df.data[c][e] # NaN}
                  IN  IF known = {} THEN NaN ELSE df.data[c][First(known)]]])
\* df.ffill(): a missing cell takes the last value before it in its column
Ffill(df) ==
    Frame(df.index, df.columns,
          [c \in df.columns |->
              [d \in df.index |->
                  LET known == {e \in df.index : e <= d /\ df.data[c][e] # NaN}
                  IN  IF known = {} THEN NaN ELSE df.data[c][Last(known)]]])

\* pd.concat([a, b], axis=1): the union of the indexes, the columns side by side
Concat(a, b) ==
    LET days == a.index \cup b.index
    IN  Frame(days, a.columns \cup b.columns,
              [c \in a.columns \cup b.columns |->
                  [d \in days |->
                      IF c \in a.columns
                      THEN IF d \in a.index THEN a.data[c][d] ELSE NaN
                      ELSE IF d \in b.index THEN b.data[c][d] ELSE NaN]])

\* variant: how='all', only the rows missing in every column are dropped
DropnaAll(df) ==
    RowsOn(df, {d \in df.index : \E c \in df.columns : df.data[c][d] # NaN})
\* df.dropna(how='any'): the rows without a missing cell
Dropna(df) ==
    RowsOn(df, {d \in df.index : \A c \in df.columns : df.data[c][d] # NaN})

\* variant: the weekend rows are kept
KeepEveryDay(df) == df
\* df[df.index.dayofweek < 5]
KeepBusinessDays(df) == RowsOn(df, {d \in df.index : DayOfWeek(d) < 5})

align_market_data(crypto_data, traditional_data) ==
    IF FrameIsEmpty(crypto_data) \/ FrameIsEmpty(traditional_data)
    THEN EmptyFrame
    ELSE LET crypto_daily == Resample(crypto_data)
             trad_daily == Ffill(Resample(traditional_data))
         IN  KeepBusinessDays(Dropna(Concat(crypto_daily, trad_daily)))

FirstDay == 3                   \* a Thursday
MaxDay == 7                     \* the inputs of align_market_data lie in FirstDay..MaxDay
\* a second column of an input: none, one without gaps, one with gaps
Seconds == {"none", "complete", "gaps"}

\* a table of one column with a row on each of the given days; the value of
\* a day is the day's number from base on
OneColumn(name, days, base) ==
    IF days = {} THEN EmptyFrame
    ELSE Frame(days, {name}, [c \in {name} |-> [d \in days |-> {base + d}]])

\* df with one more column, whose value on a day is the day's number from
\* base on; with gaps, the cells of the days of the given parity are missing
WithColumn(df, name, base, second, parity) ==
    IF second = "none" \/ FrameIsEmpty(df) THEN df
    ELSE Frame(df.index, df.columns \cup {name},
               [c \in df.columns \cup {name} |->
                   IF c # name THEN df.data[c]
                   ELSE [d \in df.index |->
                            IF second = "gaps" /\ d % 2 = parity THEN NaN ELSE {base + d}]])

\* align_market_data(crypto_data, traditional_data) for a crypto table and a
\* traditional-market table with rows on any days, of one or two columns
AlignCall ==
    /\ calc = NoCalc
    /\ \E cdays \in SUBSET (FirstDay..MaxDay), tdays \in SUBSET (FirstDay..MaxDay),
          eth \in Seconds, vix \in Seconds :
          LET crypto_data == WithColumn(OneColumn("BTC", cdays, 1), "ETH", 20, eth, 0)
              traditional_data ==
                  WithColumn(OneColumn("SP500", tdays, 100), "VIX", 200, vix, 1)
          IN  calc' = [fn |-> "align_market_data",
                       crypto_data |-> crypto_data,
                       traditional_data |-> traditional_data,
                       aligned_data |-> align_market_data(crypto_data, traditional_data)]
    /\ UNCHANGED <<now, files, writable, pc, calls, hist, all, ev, latest, prevOp,
                   lim, load>>

-----------------------------------------------------------------------------
(* The correlation functions.  Prices are whole numbers, chosen even so    *)
(* that the mean of one or two of them is whole; a return is the fraction  *)
(* num/den; a correlation is given by the three sums it is the quotient    *)
(* of: cov / sqrt(var_x * var_y).                                          *)

MaxSpan == 21                   \* the inputs cover the days 0..MaxSpan-1
WindowSizes == 7..90            \* the window argument
Shapes == {"flat", "zigzag"}
LowPrice == 2
HighPrice == 4                  \* prices are LowPrice or HighPrice
ReturnUnit == 12                \* returns are summed in twelfths

\* the price of a series on day d: constant, or up and down, the S&P 500 at
\* half the pace of the coin
Price(shape, pace, d) ==
    IF shape = "flat" THEN LowPrice
    ELSE IF (d \div pace) % 2 = 0 THEN LowPrice ELSE HighPrice

Zero == [num |-> 0, den |-> 1]

\* fill_method, the default of DataFrame.pct_change in the pandas that is
\* installed: "pad" before pandas 3.0 (a missing cell takes the value before
\* it, then the change is computed), "none" from 3.0 on.  The repository
\* does not say which pandas it runs on.
FillMethods == {"pad", "none"}

\* df.pct_change().fillna(0)
calculate_returns(df, fill_method) ==
    IF FrameIsEmpty(df) THEN EmptyFrame
    ELSE LET filled == IF fill_method = "pad" THEN Ffill(df) ELSE df
         IN  Frame(df.index, df.columns,
                   [c \in df.columns |->
                       [d \in df.index |->
                           LET before == {e \in df.index : e < d}
                           IN  IF before = {} \/ filled.data[c][d] = NaN
                                  \/ filled.data[c][Last(before)] = NaN
                               THEN {Zero}
                               ELSE LET cur == CHOOSE v \in filled.data[c][d] : TRUE
                                        prev == CHOOSE v \in filled.data[c][Last(before)] :
                                                    TRUE
                                    IN  {[num |-> cur - prev, den |-> prev]}]])

RECURSIVE SumOver(_, _)
SumOver(f, days) ==
    IF days = {} THEN 0
    ELSE LET d == First(days) IN f[d] + SumOver(f, days \ {d})

\* the return of column c on day d in units of 1/ReturnUnit
Scaled(df, c, d) ==
    LET r == CHOOSE v \in df.data[c][d] : TRUE IN (r.num * ReturnUnit) \div r.den

\* the rows of the window that ends on day d
WindowOf(df, window, d) ==
    {e \in df.index : e <= d /\ Cardinality({g \in df.index : e < g /\ g <= d}) < window}

\* one cell of rolling(window, min_periods).corr(): columns x and y on day d
RollingCorrCell(df, x, y, window, min_periods, d) ==
    LET days == {e \in WindowOf(df, window, d) : df.data[x][e] # NaN /\ df.data[y][e] # NaN}
        n == Cardinality(days)
        vx == [e \in days |-> Scaled(df, x, e)]
        vy == [e \in days |-> Scaled(df, y, e)]
        sx == SumOver(vx, days)
        sy == SumOver(vy, days)
        cov == n * SumOver([e \in days |-> vx[e] * vy[e]], days) - sx * sy
        var_x == n * SumOver([e \in days |-> vx[e] * vx[e]], days) - sx * sx
        var_y == n * SumOver([e \in days |-> vy[e] * vy[e]], days) - sy * sy
    IN  IF n < min_periods \/ var_x = 0 \/ var_y = 0
        THEN NaN
        ELSE {[cov |-> cov, var_x |-> var_x, var_y |-> var_y]}

\* min_periods=window//2
MinPeriods(window) == window \div 2

\* returns_df.rolling(window, min_periods=window//2).corr(), then
\* xs('SP500', level=1) and drop('SP500', axis=1)
Sp500Corr(returns_df, window) ==
    LET others == returns_df.columns \ {"SP500"}
    IN  Frame(returns_df.index, others,
              [c \in others |->
                  [d \in returns_df.index |->
                      RollingCorrCell(returns_df, c, "SP500", window, MinPeriods(window), d)]])

\* CRYPTO_CATEGORIES, cut down to three categories: two coins of Layer1, one
\* of Meme, and a category none of whose coins is ever in the universe
CRYPTO_CATEGORIES ==
    [Layer1 |-> <<"BTC", "ETH">>, Meme |-> <<"DOGE">>, Stablecoins |-> <<"USDT">>]
Categories == <<"Layer1", "Meme", "Stablecoins">>

\* [coin for coin in coins if coin in present]
AvailableCoins(category, present) ==
    SelectSeq(CRYPTO_CATEGORIES[category], LAMBDA coin : coin \in present)

\* variant: every category counts as having coins
HasCoinsAlways(available_coins) == TRUE
\* if available_coins:
HasCoins(available_coins) == available_coins # <<>>

\* a column of a table as a series
Column(df, c) == [index |-> df.index, data |-> df.data[c]]
\* crypto_data[symbol]['price']
PriceOf(crypto_data, symbol) ==
    LET i == CHOOSE i \in DOMAIN crypto_data.keys : crypto_data.keys[i] = symbol
    IN  Column(crypto_data.vals[i], "price")

\* df[name] = series: a table without rows takes the index of a series that
\* has rows, its columns missing on every row; a table with rows keeps its
\* index, and the series is fitted to it
AssignColumn(df, name, series) ==
    LET index == IF df.index = {} /\ series.index # {} THEN series.index ELSE df.index
    IN  Frame(index, df.columns \cup {name},
              [c \in df.columns \cup {name} |->
                  IF c # name
                  THEN [d \in index |-> IF d \in df.index THEN df.data[c][d] ELSE NaN]
                  ELSE [d \in index |->
                           IF d \in series.index THEN series.data[d] ELSE NaN]])

\* the cells of the series that have a value on day d
RECURSIVE ValuesOn(_, _)
ValuesOn(serieses, d) ==
    IF serieses = <<>> THEN <<>>
    ELSE LET one == Head(serieses)
             rest == ValuesOn(Tail(serieses), d)
         IN  IF d \in one.index /\ one.data[d] # NaN
             THEN <<CHOOSE v \in one.data[d] : TRUE>> \o rest
             ELSE rest

RECURSIVE SumSeq(_)
SumSeq(values) == IF values = <<>> THEN 0 ELSE Head(values) + SumSeq(Tail(values))

RECURSIVE IndexUnion(_)
IndexUnion(serieses) ==
    IF serieses = <<>> THEN {} ELSE Head(serieses).index \cup IndexUnion(Tail(serieses))

\* pd.concat(serieses, axis=1).mean(axis=1): on each day of any of the series,
\* the mean of the values there are, missing if there is none
MeanAcross(serieses) ==
    LET days == IndexUnion(serieses)
    IN  [index |-> days,
         data |-> [d \in days |->
                      LET values == ValuesOn(serieses, d)
                      IN  IF values = <<>> THEN NaN
                          ELSE {SumSeq(values) \div Len(values)}]]

\* the prices of the coins of a category
CategoryPrices(crypto_data, coins) ==
    [i \in DOMAIN coins |-> PriceOf(crypto_data, coins[i])]

\* for symbol, data in crypto_data.items(): crypto_df[symbol] = data['price']
RECURSIVE CoinColumns(_, _, _)
CoinColumns(df, crypto_data, i) ==
    IF i > Len(crypto_data.keys) THEN df
    ELSE CoinColumns(AssignColumn(df, crypto_data.keys[i],
                                  PriceOf(crypto_data, crypto_data.keys[i])),
                     crypto_data, i + 1)

\* for category in CRYPTO_CATEGORIES: the index of a category with available
\* coins is the mean of their prices
RECURSIVE PriceIndices(_, _, _)
PriceIndices(df, crypto_data, i) ==
    IF i > Len(Categories) THEN df
    ELSE LET available_coins == AvailableCoins(Categories[i], Range(crypto_data.keys))
         IN  PriceIndices(
                 IF HasCoins(available_coins)
                 THEN AssignColumn(df, Categories[i] \o "_Index",
                                   MeanAcross(CategoryPrices(crypto_data, available_coins)))
                 ELSE df,
                 crypto_data, i + 1)

\* crypto_data: a dict of tables with a price column; sp500_data: None ({})
\* or a series
calculate_rolling_correlations(crypto_data, sp500_data, window, fill_method) ==
    LET nothing == [aligned_data |-> EmptyFrame, returns_df |-> EmptyFrame,
                    sp500_corr |-> EmptyFrame]
    IN  IF crypto_data = EmptyDict \/ sp500_data = {} THEN nothing
        ELSE LET crypto_df == CoinColumns(EmptyFrame, crypto_data, 1)
                 series == CHOOSE v \in sp500_data : TRUE
                 trad_df == Frame(series.index, {"SP500"},
                                  [c \in {"SP500"} |-> series.data["Close"]])
                 aligned_data == align_market_data(PriceIndices(crypto_df, crypto_data, 1),
                                                   trad_df)
                 returns_df == Dropna(Ffill(calculate_returns(aligned_data, fill_method)))
             IN  IF FrameIsEmpty(crypto_df) THEN nothing
                 ELSE IF FrameIsEmpty(aligned_data) \/ FrameIsEmpty(returns_df)
                 THEN [nothing EXCEPT !.aligned_data = aligned_data]
                 ELSE [aligned_data |-> aligned_data, returns_df |-> returns_df,
                       sp500_corr |-> Sp500Corr(returns_df, window)]

\* get_coin_category: the first category that lists the symbol
RECURSIVE CategoryFrom(_, _)
CategoryFrom(symbol, i) ==
    IF i > Len(Categories) THEN "Other"
    ELSE IF symbol \in Range(CRYPTO_CATEGORIES[Categories[i]]) THEN Categories[i]
    ELSE CategoryFrom(symbol, i + 1)
get_coin_category(symbol) == CategoryFrom(symbol, 1)

\* the names of the index columns
IndexNames == {Categories[i] \o "_Index" : i \in DOMAIN Categories}

\* df.corr(): a cell for every pair of columns, over all the rows
Corr(df) ==
    Frame(df.columns, df.columns,
          [x \in df.columns |->
              [y \in df.columns |->
                  IF df.index = {} THEN NaN
                  ELSE RollingCorrCell(df, x, y, Cardinality(df.index), 1, Last(df.index))]])

\* df[columns]
Columns(df, columns) == Frame(df.index, columns, [c \in columns |-> df.data[c]])

\* calculate_returns(df[available_coins]).mean(axis=1): on every day the mean
\* of the returns of the coins
MeanReturn(df, available_coins, fill_method) ==
    LET returns == calculate_returns(Columns(df, Range(available_coins)), fill_method)
    IN  [index |-> returns.index,
         data |-> [d \in returns.index |->
                      {[num |-> SumSeq([i \in DOMAIN available_coins |->
                                           Scaled(returns, available_coins[i], d)]),
                        den |-> ReturnUnit * Len(available_coins)]}]]

\* for category in CRYPTO_CATEGORIES: the column of a category with available
\* coins is the mean of their returns; named category + suffix
RECURSIVE ReturnIndices(_, _, _, _, _)
ReturnIndices(returns_df, df, suffix, i, fill_method) ==
    IF i > Len(Categories) THEN returns_df
    ELSE LET available_coins == AvailableCoins(Categories[i], df.columns)
         IN  ReturnIndices(
                 IF HasCoins(available_coins)
                 THEN AssignColumn(returns_df, Categories[i] \o suffix,
                                   MeanReturn(df, available_coins, fill_method))
                 ELSE returns_df,
                 df, suffix, i + 1, fill_method)

\* calculate_category_correlations(df): df holds the prices of the coins
calculate_category_correlations(df, fill_method) ==
    LET category_df == ReturnIndices(EmptyFrame, df, "", 1, fill_method)
    IN  IF FrameIsEmpty(df) \/ category_df.columns = {}
        THEN [returns_df |-> EmptyFrame, correlations |-> EmptyFrame]
        ELSE [returns_df |-> category_df, correlations |-> Corr(category_df)]

\* pd.DataFrame({symbol: data['price'] ...}): the union of the indexes
PriceTable(crypto_data) ==
    LET serieses == [i \in DOMAIN crypto_data.keys |-> PriceOf(crypto_data, crypto_data.keys[i])]
        days == IndexUnion(serieses)
    IN  Frame(days, Range(crypto_data.keys),
              [c \in Range(crypto_data.keys) |->
                  [d \in days |-> IF d \in PriceOf(crypto_data, c).index
                                  THEN PriceOf(crypto_data, c).data[d] ELSE NaN]])

\* the label of a row or column of the coin matrix
Label(idx) ==
    IF idx \in IndexNames THEN idx ELSE idx \o " (" \o get_coin_category(idx) \o ")"

\* correlations.index = new_index; correlations.columns = new_columns
Relabel(correlations) ==
    LET labels == {Label(c) : c \in correlations.columns}
        Of(l) == CHOOSE c \in correlations.columns : Label(c) = l
    IN  Frame(labels, labels,
              [x \in labels |-> [y \in labels |-> correlations.data[Of(x)][Of(y)]]])

calculate_crypto_correlations(crypto_data, fill_method) ==
    LET nothing == [returns_df |-> EmptyFrame, correlations |-> EmptyFrame]
    IN  IF crypto_data = EmptyDict THEN nothing
        ELSE LET df == PriceTable(crypto_data)
                 returns_df == ReturnIndices(calculate_returns(df, fill_method), df, "_Index", 1,
                                            fill_method)
             IN  IF FrameIsEmpty(df) \/ FrameIsEmpty(returns_df) THEN nothing
                 ELSE [returns_df |-> returns_df,
                       correlations |-> Relabel(Corr(returns_df))]

\* market_data: SP500, then VIX and Fear_Greed when they were loaded
MarketData(sp500_data, vix_data, fear_greed_data) ==
    LET one == AssignColumn(EmptyFrame, "SP500",
                            Column(CHOOSE v \in sp500_data : TRUE, "Close"))
        two == IF vix_data = {} THEN one
               ELSE AssignColumn(one, "VIX", Column(CHOOSE v \in vix_data : TRUE, "Close"))
    IN  IF fear_greed_data = {} THEN two
        ELSE AssignColumn(two, "Fear_Greed",
                          Column(CHOOSE v \in fear_greed_data : TRUE, "value"))

\* market_returns[returns_cols] = calculate_returns(aligned_data[returns_cols]):
\* the sentiment score stays as it is
MarketReturns(aligned_data, fill_method) ==
    LET returns_cols == aligned_data.columns \ {"Fear_Greed"}
        returns == calculate_returns(Columns(aligned_data, returns_cols), fill_method)
    IN  Frame(aligned_data.index, aligned_data.columns,
              [c \in aligned_data.columns |->
                  IF c \in returns_cols THEN returns.data[c]
                  ELSE [d \in aligned_data.index |->
                           IF aligned_data.data[c][d] = NaN THEN NaN
                           ELSE {[num |-> CHOOSE v \in aligned_data.data[c][d] : TRUE,
                                  den |-> 1]}]])

calculate_market_correlations(crypto_data, sp500_data, vix_data, fear_greed_data, fill_method) ==
    LET nothing == [aligned_data |-> EmptyFrame, returns_df |-> EmptyFrame,
                    correlations |-> EmptyFrame]
    IN  IF crypto_data = EmptyDict \/ sp500_data = {} THEN nothing
        ELSE LET market_data == MarketData(sp500_data, vix_data, fear_greed_data)
                 crypto_df == CoinColumns(EmptyFrame, crypto_data, 1)
                 aligned_data == align_market_data(PriceIndices(crypto_df, crypto_data, 1),
                                                   market_data)
                 market_returns == Dropna(Ffill(MarketReturns(aligned_data, fill_method)))
             IN  IF FrameIsEmpty(market_data) \/ FrameIsEmpty(crypto_df) THEN nothing
                 ELSE IF FrameIsEmpty(aligned_data) \/ FrameIsEmpty(market_returns)
                 THEN [nothing EXCEPT !.aligned_data = aligned_data]
                 ELSE [aligned_data |-> aligned_data, returns_df |-> market_returns,
                       correlations |-> Corr(market_returns)]

\* a price series with a row on each of the given days
PriceSeries(column, shape, pace, days) ==
    Frame(days, {column}, [c \in {column} |-> [d \in days |-> {Price(shape, pace, d)}]])

\* calculate_rolling_correlations(crypto_data, sp500_data, window) for a coin
\* quoted every day and an index quoted Monday to Friday
RollingCall ==
    /\ calc = NoCalc
    /\ \E window \in WindowSizes, span \in 0..MaxSpan, coin \in Shapes, index \in Shapes,
          loaded \in BOOLEAN, fill_method \in FillMethods :
          LET days == 0..(span - 1)
              crypto_data == IF span = 0 THEN EmptyDict
                             ELSE Dict(<<"BTC">>, <<PriceSeries("price", coin, 1, days)>>)
              sp500_data == IF ~loaded THEN {}
                            ELSE {PriceSeries("Close", index, 2,
                                              {d \in days : DayOfWeek(d) < 5})}
              out == calculate_rolling_correlations(crypto_data, sp500_data, window,
                                                    fill_method)
          IN  calc' = [fn |-> "calculate_rolling_correlations",
                       window |-> window,
                       aligned_data |-> out.aligned_data,
                       returns_df |-> out.returns_df,
                       sp500_corr |-> out.sp500_corr]
    /\ UNCHANGED <<now, files, writable, pc, calls, hist, all, ev, latest, prevOp,
                   lim, load>>

-----------------------------------------------------------------------------
(* The four correlation functions on a universe of up to three coins.      *)

MaxCorrSpan == 5                \* the inputs cover the days 0..MaxCorrSpan-1
CorrWindow == 7                 \* the window passed to the rolling correlations
Coins == <<"BTC", "ETH", "DOGE">>

\* crypto_data for the coins of the universe: BTC and ETH of the given shapes,
\* ETH at half the pace of BTC; when late, ETH from the second day on and DOGE
\* without its third day
UniverseData(universe, span, btc, eth, late) ==
    LET days == 0..(span - 1)
        keys == SelectSeq(Coins, LAMBDA coin : coin \in universe)
    IN  Dict(keys,
             [i \in DOMAIN keys |->
                 IF keys[i] = "BTC" THEN PriceSeries("price", btc, 1, days)
                 ELSE IF keys[i] = "ETH"
                 THEN PriceSeries("price", eth, 2, IF late THEN days \ {0} ELSE days)
                 ELSE PriceSeries("price", "zigzag", 3,
                                  IF late THEN days \ {2} ELSE days)])

\* an index or score quoted Monday to Friday, None ({}) when it was not loaded
Quoted(loaded, column, shape, pace, span) ==
    IF ~loaded THEN {}
    ELSE {PriceSeries(column, shape, pace, {d \in 0..(span - 1) : DayOfWeek(d) < 5})}

CryptoCorrelationsCall ==
    /\ calc = NoCalc
    /\ \E universe \in SUBSET Range(Coins), span \in 1..MaxCorrSpan, btc \in Shapes,
          eth \in Shapes, late \in BOOLEAN, fill_method \in FillMethods :
          LET out == calculate_crypto_correlations(
                         UniverseData(universe, span, btc, eth, late), fill_method)
          IN  calc' = [fn |-> "calculate_crypto_correlations", universe |-> universe,
                       returns_df |-> out.returns_df, result |-> out.correlations]
    /\ UNCHANGED <<now, files, writable, pc, calls, hist, all, ev, latest, prevOp,
                   lim, load>>

CategoryCorrelationsCall ==
    /\ calc = NoCalc
    /\ \E universe \in SUBSET Range(Coins), span \in 1..MaxCorrSpan, btc \in Shapes,
          eth \in Shapes, late \in BOOLEAN, fill_method \in FillMethods :
          LET crypto_data == UniverseData(universe, span, btc, eth, late)
              df == IF universe = {} THEN EmptyFrame ELSE PriceTable(crypto_data)
              out == calculate_category_correlations(df, fill_method)
          IN  calc' = [fn |-> "calculate_category_correlations", universe |-> universe,
                       returns_df |-> out.returns_df, result |-> out.correlations]
    /\ UNCHANGED <<now, files, writable, pc, calls, hist, all, ev, latest, prevOp,
                   lim, load>>

MarketCorrelationsCall ==
    /\ calc = NoCalc
    /\ \E universe \in SUBSET Range(Coins), span \in 1..MaxCorrSpan, btc \in Shapes,
          eth \in Shapes, late \in BOOLEAN, sp500 \in BOOLEAN, vix \in BOOLEAN,
          fear_greed \in BOOLEAN, fill_method \in FillMethods :
          LET out == calculate_market_correlations(
                         UniverseData(universe, span, btc, eth, late),
                         Quoted(sp500, "Close", "zigzag", 2, span),
                         Quoted(vix, "Close", "zigzag", 1, span),
                         Quoted(fear_greed, "value", "zigzag", 3, span), fill_method)
          IN  calc' = [fn |-> "calculate_market_correlations", universe |-> universe,
                       aligned_data |-> out.aligned_data,
                       returns_df |-> out.returns_df, result |-> out.correlations]
    /\ UNCHANGED <<now, files, writable, pc, calls, hist, all, ev, latest, prevOp,
                   lim, load>>

RollingUniverseCall ==
    /\ calc = NoCalc
    /\ \E universe \in SUBSET Range(Coins), span \in 1..MaxCorrSpan, btc \in Shapes,
          eth \in Shapes, late \in BOOLEAN, sp500 \in BOOLEAN,
          fill_method \in FillMethods :
          LET out == calculate_rolling_correlations(
                         UniverseData(universe, span, btc, eth, late),
                         Quoted(sp500, "Close", "zigzag", 2, span), CorrWindow,
                         fill_method)
          IN  calc' = [fn |-> "calculate_rolling_correlations", universe |-> universe,
                       window |-> CorrWindow,
                       aligned_data |-> out.aligned_data,
                       returns_df |-> out.returns_df,
                       sp500_corr |-> out.sp500_corr, result |-> out.sp500_corr]
    /\ UNCHANGED <<now, files, writable, pc, calls, hist, all, ev, latest, prevOp,
                   lim, load>>

\* Series stamped with a time of day.  The index providers date a session at
\* midnight New York time, 04:00 or 05:00 once converted to UTC; the coin and
\* sentiment providers date a day at midnight UTC.
Hours == {0, 5}

\* the series with every row moved to hour h of its day
AtHour(series, h) ==
    Frame({Stamp(d, h) : d \in series.index}, series.columns,
          [c \in series.columns |->
              [t \in {Stamp(d, h) : d \in series.index} |-> series.data[c][DayOf(t)]]])

\* BTC dated at midnight, ETH at the given hour
StampedUniverse(universe, span, btc, eth_hour) ==
    LET plain == UniverseData(universe, span, btc, "zigzag", FALSE)
    IN  Dict(plain.keys,
             [i \in DOMAIN plain.keys |->
                 IF plain.keys[i] = "ETH" THEN AtHour(plain.vals[i], eth_hour)
                 ELSE plain.vals[i]])

\* an index or score quoted Monday to Friday at the given hour
StampedQuoted(loaded, column, pace, span, hour) ==
    {AtHour(series, hour) : series \in Quoted(loaded, column, "zigzag", pace, span)}

\* the series handed in, by the name of their column in the aligned table
InputsOf(crypto_data, sp500_data, vix_data, fear_greed_data) ==
    LET coins == [i \in DOMAIN crypto_data.keys |->
                     [name |-> crypto_data.keys[i],
                      series |-> Column(crypto_data.vals[i], "price")]]
        one(name, data, column) ==
            IF data = {} THEN <<>>
            ELSE <<[name |-> name, series |-> Column(CHOOSE v \in data : TRUE, column)]>>
    IN  coins \o one("SP500", sp500_data, "Close") \o one("VIX", vix_data, "Close")
              \o one("Fear_Greed", fear_greed_data, "value")

StampedMarketCall ==
    /\ calc = NoCalc
    /\ \E universe \in {{"BTC"}, {"BTC", "ETH"}}, span \in 1..MaxCorrSpan, btc \in Shapes,
          eth_hour \in Hours, index_hour \in Hours, vix \in BOOLEAN, fear_greed \in BOOLEAN,
          fill_method \in FillMethods :
          LET crypto_data == StampedUniverse(universe, span, btc, eth_hour)
              sp500_data == StampedQuoted(TRUE, "Close", 2, span, index_hour)
              vix_data == StampedQuoted(vix, "Close", 1, span, index_hour)
              fear_greed_data == StampedQuoted(fear_greed, "value", 3, span, 0)
              out == calculate_market_correlations(crypto_data, sp500_data, vix_data,
                                                   fear_greed_data, fill_method)
          IN  calc' = [fn |-> "calculate_market_correlations", universe |-> universe,
                       inputs |-> InputsOf(crypto_data, sp500_data, vix_data,
                                           fear_greed_data),
                       aligned_data |-> out.aligned_data,
                       returns_df |-> out.returns_df, result |-> out.correlations]
    /\ UNCHANGED <<now, files, writable, pc, calls, hist, all, ev, latest, prevOp,
                   lim, load>>

StampedRollingCall ==
    /\ calc = NoCalc
    /\ \E universe \in {{"BTC"}, {"BTC", "ETH"}}, span \in 1..MaxCorrSpan, btc \in Shapes,
          eth_hour \in Hours, index_hour \in Hours, fill_method \in FillMethods :
          LET crypto_data == StampedUniverse(universe, span, btc, eth_hour)
              sp500_data == StampedQuoted(TRUE, "Close", 2, span, index_hour)
              out == calculate_rolling_correlations(crypto_data, sp500_data, CorrWindow,
                                                    fill_method)
          IN  calc' = [fn |-> "calculate_rolling_correlations", universe |-> universe,
                       inputs |-> InputsOf(crypto_data, sp500_data, {}, {}),
                       window |-> CorrWindow,
                       aligned_data |-> out.aligned_data,
                       returns_df |-> out.returns_df,
                       sp500_corr |-> out.sp500_corr, result |-> out.sp500_corr]
    /\ UNCHANGED <<now, files, writable, pc, calls, hist, all, ev, latest, prevOp,
                   lim, load>>

-----------------------------------------------------------------------------
(* The cache manager on its own: set, get, delete and clear_all in any     *)
(* order, time passing in between.  ev holds the last operation, prevOp    *)
(* the one before it, latest[k] the payload of the last set of k that no   *)
(* delete or clear_all has followed, and the payload that set replaced.    *)

CacheInstants ==
    {0, CRYPTO_PRICES_MAX_AGE, CRYPTO_PRICES_MAX_AGE + 1, INDEX_MAX_AGE + 1}
MaxAges == {NoMaxAge, MaxAge(0), MaxAge(CRYPTO_PRICES_MAX_AGE), MaxAge(INDEX_MAX_AGE)}
CacheKeys == {"sp500", "vix"}
\* payloads as the index fetchers store them, of one row and of two
Payloads ==
    {[index |-> [i \in 1..n |-> Rows(n)[i].date],
      values |-> [i \in 1..n |-> Rows(n)[i].Close]] : n \in 1..2}

NoOp == [op |-> "other", key |-> "", at |-> 0]
NoWrite == [data |-> None, replaced |-> FALSE]
Unknown == [data |-> [py |-> "unknown"], replaced |-> FALSE]

\* of the operation before the last, what a set wrote where and when
OpOf(events) ==
    IF Len(events) = 1 /\ events[1].e = "cache" /\ events[1].op = "set" /\ events[1].ok
    THEN [op |-> "set", key |-> events[1].key, at |-> events[1].at]
    ELSE NoOp

CacheOp(f, events, l) ==
    /\ pc = "idle"
    /\ files' = f
    /\ ev' = events
    /\ latest' = l
    /\ prevOp' = OpOf(ev)
    /\ UNCHANGED <<now, writable, pc, calls, hist, all, lim, load, calc>>

CacheSetOp ==
    \E key \in CacheKeys, data \in Payloads, outcome \in SetOutcomes :
        CacheOp(CacheSet(files, key, data, now, outcome),
                <<[e |-> "cache", op |-> "set", key |-> key, at |-> now,
                   ok |-> (outcome = "ok"), data |-> data]>>,
                [latest EXCEPT ![key] =
                    IF outcome = "ok"
                    THEN [data |-> data,
                          replaced |-> IsEntry(files[key]) /\ files[key].data # data]
                    ELSE Unknown])

CacheGetOp ==
    \E key \in CacheKeys, max_age_minutes \in MaxAges :
        CacheOp(files,
                <<[e |-> "cache", op |-> "get", key |-> key, at |-> now, ok |-> TRUE,
                   max_age_minutes |-> max_age_minutes,
                   result |-> CacheGet(files, key, max_age_minutes, now)]>>,
                latest)

CacheDeleteOp ==
    \E key \in CacheKeys :
        \E outcome \in IF files[key] = NoFile THEN {"ok"} ELSE RemoveOutcomes :
            CacheOp(CacheDelete(files, key, outcome),
                    <<[e |-> "cache", op |-> "delete", key |-> key, at |-> now,
                       ok |-> (outcome = "ok")]>>,
                    [latest EXCEPT ![key] = IF outcome = "ok" THEN NoWrite ELSE Unknown])

CacheClearAllOp ==
    \E removed \in SUBSET Existing(files) :
        CacheOp(CacheClearAll(files, removed),
                <<[e |-> "cache", op |-> "clear_all", key |-> "", at |-> now,
                   ok |-> (removed = Existing(files))]>>,
                [k \in Keys |->
                    IF removed = Existing(files) THEN NoWrite
                    ELSE IF files[k] = NoFile THEN latest[k] ELSE Unknown])

CacheTick ==
    /\ now' \in {u \in CacheInstants : u > now}
    /\ UNCHANGED <<files, writable, pc, calls, hist, all, ev, latest, prevOp, lim, load, calc>>

\* The cache files are plain files of the cache directory: another writer
\* (an editor, another version of the program, an interrupted copy) leaves
\* in one of them a document that set() would not have written.
ForeignContents ==
    LET data == CHOOSE p \in Payloads : Len(p.index) = 1
    IN  {Garbled, NotAnObject, NoData(now), NoTimestamp(data), BadTimestamp(data)}

ForeignWrite ==
    \E key \in CacheKeys, content \in ForeignContents :
        CacheOp([files EXCEPT ![key] = content],
                <<[e |-> "cache", op |-> "foreign", key |-> key, at |-> now, ok |-> TRUE]>>,
                [latest EXCEPT ![key] = Unknown])

-----------------------------------------------------------------------------
Init ==
    /\ now = 0
    /\ files = [k \in Keys |-> NoFile]
    /\ writable = TRUE
    /\ pc = "idle"
    /\ calls = 0
    /\ hist = NoHist
    /\ all = NoAll
    /\ ev = <<>>
    /\ latest = [k \in Keys |-> NoWrite]
    /\ prevOp = NoOp
    /\ lim = NoLimiter
    /\ load = NoLoad
    /\ calc = NoCalc

\* the fetchers, called one after the other
Next ==
    \/ Tick
    \/ CallTopCrypto
    \/ CallSp500
    \/ CallVix
    \/ CallFearGreed
    \/ CallHistorical
    \/ StepPrimary
    \/ ListingFetch
    \/ PrimaryFetch
    \/ WaitSleeps
    \/ StepFallback

Spec == Init /\ [][Next]_vars

\* the acquisition cycle over the universe
NextAll ==
    \/ Tick
    \/ CallAll
    \/ AllFetch
    \/ StepPrimary
    \/ ListingFetch
    \/ PrimaryFetch
    \/ WaitSleeps
    \/ StepFallback
    \/ AllReturn

SpecAll == Init /\ [][NextAll]_vars

\* load_all_data, called again and again
NextLoad ==
    \/ LoadTick
    \/ LoadMarket
    \/ LoadCallAll
    \/ AllFetch
    \/ StepPrimary
    \/ ListingFetch
    \/ PrimaryFetch
    \/ WaitSleeps
    \/ StepFallback
    \/ AllReturn
    \/ LoadEnd

SpecLoad == Init /\ [][NextLoad]_vars

\* load_all_data over half a day: a cycle, the page left open, the next call
NextRefresh ==
    \/ LoadWait
    \/ LoadMarket
    \/ LoadCallAll
    \/ AllFetch
    \/ StepPrimary
    \/ ListingFetch
    \/ PrimaryFetch
    \/ WaitSleeps
    \/ StepFallback
    \/ AllReturn
    \/ LoadEnd

SpecRefresh == Init /\ [][NextRefresh]_vars

\* the correlations of series dated at different times of day
NextStamped ==
    \/ StampedMarketCall
    \/ StampedRollingCall

SpecStamped == Init /\ [][NextStamped]_vars

\* the cache manager, used directly
NextCache ==
    \/ CacheTick
    \/ CacheSetOp
    \/ CacheGetOp
    \/ CacheDeleteOp
    \/ CacheClearAllOp

\* the fetchers over a cache directory that stops taking writes
NextFaulty ==
    \/ DiskFails
    \/ CallSp500
    \/ CallFearGreed
    \/ CallHistorical
    \/ StepPrimary
    \/ ListingFetch
    \/ PrimaryFetch
    \/ WaitSleeps
    \/ StepFallback

SpecFaulty == Init /\ [][NextFaulty]_vars

SpecCache == Init /\ [][NextCache]_vars

\* align_market_data on its own and inside the two functions that call it
NextAnalysis ==
    \/ AlignCall
    \/ MarketCorrelationsCall
    \/ RollingUniverseCall

SpecAnalysis == Init /\ [][NextAnalysis]_vars

\* the two index fetchers over a cache that is also written directly, with
\* payloads of one or two rows
NextIndex ==
    \/ Tick
    \/ CacheSetOp
    \/ CallSp500
    \/ CallVix

SpecIndex == Init /\ [][NextIndex]_vars

\* the cache manager over a directory that other writers touch as well
NextForeign ==
    \/ CacheTick
    \/ CacheSetOp
    \/ CacheGetOp
    \/ ForeignWrite

SpecForeign == Init /\ [][NextForeign]_vars

\* one rate limiter and the threads that call it
NextLimiter ==
    \/ LimiterInit
    \/ LimiterWait
    \/ LimiterWhile
    \/ LimiterHead
    \/ LimiterPop
    \/ LimiterLen
    \/ LimiterOldest
    \/ LimiterWake
    \/ LimiterStamp
    \/ LimiterReturn
    \/ LimiterIdle

SpecLimiter == Init /\ [][NextLimiter]_vars

\* exponential_backoff for the attempts of one loop
NextBackoff ==
    \/ BackoffFirst
    \/ BackoffNext

SpecBackoff == Init /\ [][NextBackoff]_vars

\* one call of align_market_data
NextAlign ==
    \/ AlignCall

SpecAlign == Init /\ [][NextAlign]_vars

\* one call of calculate_rolling_correlations
NextRolling ==
    \/ RollingCall

SpecRolling == Init /\ [][NextRolling]_vars

\* one call of one of the correlation functions
NextCorr ==
    \/ CryptoCorrelationsCall
    \/ CategoryCorrelationsCall
    \/ MarketCorrelationsCall
    \/ RollingUniverseCall

SpecCorr == Init /\ [][NextCorr]_vars

-----------------------------------------------------------------------------
\* Properties of the cache (SpecCache)

IsGet(events) == Len(events) = 1 /\ events[1].e = "cache" /\ events[1].op = "get"
\* the get just performed followed, with no cache operation between, a
\* successful set of the same key
GetRightAfterSet == IsGet(ev) /\ prevOp.op = "set" /\ prevOp.key = ev[1].key

\* C2: get(key, max_age) returns the stored payload exactly when an entry for
\* key exists and now - write_timestamp <= max_age, and None otherwise; without
\* max_age the age of the entry is not looked at.
C2_GetContract ==
    IsGet(ev) =>
        LET c == files[ev[1].key]
            within == \A m \in ev[1].max_age_minutes : ev[1].at - c.timestamp <= m
        IN  ev[1].result = IF IsEntry(c) /\ within THEN c.data ELSE None

\* a get at the very bound (age 5, max_age 5) that returned the payload
C2_Witness ==
    /\ IsGet(ev)
    /\ ev[1].max_age_minutes = MaxAge(CRYPTO_PRICES_MAX_AGE)
    /\ IsEntry(files[ev[1].key])
    /\ ev[1].at - files[ev[1].key].timestamp = CRYPTO_PRICES_MAX_AGE
    /\ ev[1].result = files[ev[1].key].data

\* C3 as stated: get(k, max_age = 0) right after set(k, v) returns None for
\* every elapsed time >= 0.
C3_ZeroMaxAgeAlwaysAbsent ==
    (GetRightAfterSet /\ ev[1].max_age_minutes = MaxAge(0)) => ev[1].result = None

\* C3: get(k, max_age = 0) right after a successful set(k, v) returns None when
\* the clock has moved between the two calls, and v when it has not.
C3_ZeroMaxAgeAbsentOnceTimePassed ==
    (GetRightAfterSet /\ ev[1].max_age_minutes = MaxAge(0)) =>
        ev[1].result = IF ev[1].at > prevOp.at THEN None ELSE latest[ev[1].key].data

\* both cases of C3 have happened: here the one with time elapsed
C3_Witness ==
    /\ GetRightAfterSet
    /\ ev[1].max_age_minutes = MaxAge(0)
    /\ ev[1].at > prevOp.at
    /\ ev[1].result = None

\* the case C3 leaves out: no time elapsed, the payload comes back
C3_WitnessSameInstant ==
    /\ GetRightAfterSet
    /\ ev[1].max_age_minutes = MaxAge(0)
    /\ ev[1].at = prevOp.at
    /\ ev[1].result = latest[ev[1].key].data
    /\ ev[1].result # None

\* C4: after successful set / delete / clear_all operations, get(k) without
\* max_age returns exactly the payload of the latest set(k, .) that no delete(k)
\* or clear_all followed (nothing of an earlier payload), and None if there is
\* no such set.
C4_LatestWriteWins ==
    (IsGet(ev) /\ ev[1].max_age_minutes = NoMaxAge /\ latest[ev[1].key] # Unknown) =>
        ev[1].result = latest[ev[1].key].data

\* a get without max_age that returned a payload which had replaced another
C4_Witness ==
    /\ IsGet(ev)
    /\ ev[1].max_age_minutes = NoMaxAge
    /\ latest[ev[1].key].replaced
    /\ ev[1].result = latest[ev[1].key].data
    /\ ev[1].at > files[ev[1].key].timestamp

-----------------------------------------------------------------------------
\* Properties of the fetchers (Spec)

\* the staleness bound the pipeline designates for a key
StalenessBound(key) ==
    IF key = "crypto_prices" THEN CRYPTO_PRICES_MAX_AGE ELSE INDEX_MAX_AGE
\* the index of a cached payload (a dict of symbols, or a list of dates)
PayloadIndex(data) == IF "keys" \in DOMAIN data THEN data.keys ELSE data.index
Requests(events, to) == {i \in DOMAIN events : events[i].e = "request" /\ events[i].to = to}
Sleeps(events) == {i \in DOMAIN events : events[i].e = "sleep"}
Count(tag) == Cardinality({i \in DOMAIN hist.trail : hist.trail[i] = tag})
\* a request, a sleep, a request, ... ending with a request
Alternates(trail, to) ==
    /\ Len(trail) % 2 = 1
    /\ \A i \in DOMAIN trail : trail[i] = IF i % 2 = 1 THEN to ELSE "sleep"
\* the last step left the primary loop for the fallback loop
LeftPrimary == hist.phase = "fallback" /\ hist.attempt = 0
\* the events are those of one pass of a loop of get_historical_crypto_data
PassOf(events, loop) ==
    Len(events) > 0 /\ events[1].e = "attempt" /\ events[1].loop = loop

\* C1 as stated: whatever a fetcher serves from the cache is, when read, no older
\* than the bound of its key: 5 minutes for crypto_prices, 60 minutes for sp500,
\* vix, fear_greed and crypto_historical_<symbol>.
C1_CacheReadsWithinBound ==
    \A i \in DOMAIN ev :
        ev[i].e = "served" => \A age \in ev[i].age : age <= StalenessBound(ev[i].key)

\* C5: a fetcher called while the cache holds an entry of its key within the
\* staleness bound returns the cached series and issues no network request.
C5_FreshEntryServedWithoutRequest ==
    \A i \in DOMAIN ev :
        (/\ ev[i].e = "call"
         /\ ev[i].age # {}
         /\ \A age \in ev[i].age : age <= StalenessBound(ev[i].key)) =>
            /\ i + 2 <= Len(ev)
            /\ ev[i + 1].e = "served" /\ ev[i + 1].key = ev[i].key
            /\ ev[i + 2].e = "return" /\ ev[i + 2].fn = ev[i].fn
            /\ ev[i + 2].src = "cache"
            /\ ev[i + 2].value.index = PayloadIndex(files[ev[i].key].data)

\* an entry 55 minutes old, bound 60, served by the S&P 500 fetcher
C5_Witness ==
    /\ Len(ev) = 3
    /\ ev[1].e = "call" /\ ev[1].fn = "get_sp500_data"
    /\ ev[1].age = {INDEX_MAX_AGE + 1 - (CRYPTO_PRICES_MAX_AGE + 1)}
    /\ ev[3].e = "return" /\ ev[3].src = "cache"
    /\ Len(ev[3].value.index) > MIN_POINTS

\* C6 as stated: if every historical request was answered with 429, the primary
\* loop is left after exactly max_retries requests with a sleep between
\* consecutive ones.
C6_RateLimitedAlwaysFiveRequests ==
    (LeftPrimary /\ hist.seen = {"429"}) => Alternates(hist.trail, "primary")
                                            /\ Count("primary") = max_retries

\* C6: if every historical request was answered with 429 and the symbol was found
\* in the ranked listing at every pass (the loop was left on a 429, not on a
\* failed lookup), the primary loop is left for the fallback loop after exactly
\* max_retries requests with a sleep between consecutive ones.
C6_RateLimitedFiveRequestsWhileListed ==
    (LeftPrimary /\ hist.seen = {"429"} /\ hist.abandoned = "rate_limited") =>
        /\ Alternates(hist.trail, "primary")
        /\ Count("primary") = max_retries
        /\ Count("sleep") = max_retries - 1
        /\ Count("fallback") = 0

\* five requests, five times 429, and the fallback loop is next
C6_Witness ==
    /\ LeftPrimary
    /\ hist.seen = {"429"}
    /\ hist.abandoned = "rate_limited"
    /\ Count("primary") = max_retries

\* C7 as stated: the primary provider is abandoned on a network error, an
\* unusable response or an empty dataset only after max_retries requests.
C7_OtherFailuresRetriedToTheLimit ==
    (LeftPrimary /\ hist.abandoned \in {"request_exception", "malformed", "empty"}) =>
        Count("primary") = max_retries

\* C7: a request that fails with a RequestException is followed by a backoff
\* sleep and another pass unless it was the max_retries-th pass, and only then
\* is the primary provider abandoned on it; a response without the expected
\* fields and an empty dataset are not retried: the primary loop is left at once.
C7_OnlyRequestExceptionsRetried ==
    \A i \in DOMAIN ev :
        (PassOf(ev, "primary") /\ ev[i].e = "response" /\ ev[i].from = "primary") =>
            CASE ev[i].answer \in {"malformed", "empty"} ->
                    /\ LeftPrimary
                    /\ hist.abandoned = ev[i].answer
                    /\ Sleeps(ev) = {}
              [] ev[i].answer = "request_exception" ->
                    IF ev[1].attempt < max_retries - 1
                    THEN /\ hist.phase = "primary"
                         /\ hist.attempt = ev[1].attempt + 1
                         /\ Sleeps(ev) = {i + 1}
                    ELSE /\ LeftPrimary
                         /\ hist.abandoned = "request_exception"
                         /\ Count("primary") = max_retries
                         /\ Sleeps(ev) = {}
              [] OTHER -> TRUE

\* an empty dataset at the second pass ended the primary loop
C7_Witness ==
    /\ PassOf(ev, "primary")
    /\ LeftPrimary
    /\ hist.abandoned = "empty"
    /\ hist.trail = <<"primary", "sleep", "primary">>

\* a RequestException at the last pass ended the primary loop
C7_WitnessExhausted ==
    /\ LeftPrimary
    /\ hist.abandoned = "request_exception"
    /\ hist.seen = {"request_exception"}
    /\ Count("primary") = max_retries

\* the ranked listing a pass of the primary loop looked the symbol up in
Lookups(events) ==
    {i \in DOMAIN events : events[i].e = "return" /\ events[i].fn = "get_top_crypto_data"}

\* C8: a pass of the primary loop that does not find the symbol in the ranked
\* listing issues no primary historical request and no backoff sleep and leaves
\* the loop for the fallback loop; at the first pass, the call has then made no
\* primary request at all.
C8_NotListedStraightToFallback ==
    \A i \in Lookups(ev) :
        (PassOf(ev, "primary") /\ hist.symbol \notin Range(ev[i].value.index)) =>
            /\ Requests(ev, "primary") = {}
            /\ Sleeps(ev) = {}
            /\ LeftPrimary
            /\ hist.abandoned = "not_listed"
            /\ ev[1].attempt = 0 => hist.trail = <<>>

\* ETH asked for while the ranked listing holds BTC only
C8_Witness ==
    /\ PassOf(ev, "primary")
    /\ ev[1].attempt = 0
    /\ hist.symbol = "ETH"
    /\ \E i \in Lookups(ev) : ev[i].value.index = <<"BTC">>
    /\ LeftPrimary
    /\ hist.trail = <<>>

\* C9: no fallback request before the primary loop has been left on a failure;
\* none when the primary provider delivered; the fallback requests are at most
\* max_retries, with a sleep between consecutive ones; and the max_retries-th
\* failed fallback pass returns an empty frame.
C9_FallbackDiscipline ==
    /\ (Requests(ev, "fallback") # {} \/ Count("fallback") > 0) =>
            /\ hist.abandoned # ""
            /\ PassOf(ev, "fallback") \/ hist.phase = "done"
    /\ hist.result = "primary" =>
            /\ Count("fallback") = 0
            /\ Requests(ev, "fallback") = {}
            /\ hist.abandoned = ""
    /\ Count("fallback") > 0 =>
            /\ Count("fallback") <= max_retries
            /\ \A i \in DOMAIN hist.trail :
                    hist.trail[i] = IF i % 2 = 1 THEN "fallback" ELSE "sleep"
    /\ \A i \in DOMAIN ev :
        (/\ PassOf(ev, "fallback")
         /\ ev[1].attempt = max_retries - 1
         /\ ev[i].e = "response" /\ ev[i].answer # "data") =>
            /\ hist.phase = "done"
            /\ hist.result = "empty"
            /\ Count("fallback") = max_retries
            /\ Sleeps(ev) = {}
            /\ ev[Len(ev)].e = "return"
            /\ ev[Len(ev)].fn = HistFn
            /\ ev[Len(ev)].value = EmptyDataFrame

\* the fifth fallback request failed too and the call returned an empty frame
C9_Witness ==
    /\ PassOf(ev, "fallback")
    /\ ev[1].attempt = max_retries - 1
    /\ hist.result = "empty"
    /\ Count("fallback") = max_retries
    /\ Count("sleep") = max_retries - 1
    /\ ev[Len(ev)].e = "return" /\ ev[Len(ev)].value = EmptyDataFrame

\* what a cache.set stored is all of what the fetcher returned
StoredInFull(data, value) ==
    IF "keys" \in DOMAIN data
    THEN /\ data.keys = value.index
         /\ Len(data.vals) = Len(value.values)
         /\ \A i \in DOMAIN data.vals : data.vals[i].price = value.values[i]
    ELSE IF "data" \in DOMAIN data
    THEN /\ data.index = value.index
         /\ data.data.price = value.price
         /\ data.data.market_cap = value.market_cap
    ELSE /\ data.index = value.index
         /\ data.values = value.values

\* C10: a fetcher that returns a series it got from the network has, earlier in
\* the same call, performed a cache set of the whole result under the key of the
\* series.
C10_StoredBeforeReturned ==
    \A i \in DOMAIN ev :
        (ev[i].e = "return" /\ ev[i].src = "network") =>
            \E j \in 1..(i - 1) :
                /\ ev[j].e = "cache.set"
                /\ ev[j].key = ev[i].key
                /\ StoredInFull(ev[j].data, ev[i].value)
                /\ \A k \in (j + 1)..(i - 1) : ev[k].e \notin {"call", "return", "raise"}
                /\ \E c \in 1..(j - 1) :
                        \/ ev[c].e = "call" /\ ev[c].fn = ev[i].fn
                        \/ ev[c].e = "attempt" /\ ev[i].fn = HistFn

\* the fallback provider delivered a frame, stored under the key of the symbol
C10_Witness ==
    /\ PassOf(ev, "fallback")
    /\ hist.result = "fallback"
    /\ ev[Len(ev)].e = "return" /\ ev[Len(ev)].src = "network"
    /\ Len(ev[Len(ev)].value.index) > 0
    /\ \E j \in DOMAIN ev : ev[j].e = "cache.set" /\ ev[j].key = ev[Len(ev)].key
    /\ files[ev[Len(ev)].key].data.index = ev[Len(ev)].value.index

-----------------------------------------------------------------------------
\* Properties of the acquisition cycle (SpecLoad)

Called(events, fn) == \E i \in DOMAIN events : events[i].e = "call" /\ events[i].fn = fn
\* the symbols the loop over missing_coins has dealt with so far
Processed == {all.missing_coins[i] : i \in 1..(all.i - 1)}
Table == Range(all.historical_data.keys)
\* the universe was determined and the loop over missing_coins is running or over
InLoop == all.phase \in {"fetching", "done"} /\ all.symbols # <<>>

\* the last step was the return of a cycle of load_all_data that fetched
CycleReturned == ev = <<EvReturn(LoadFn, "", "cycle", load.result.data_status)>>

\* C11: a failed sub-fetch does not abort the others.  In get_all_historical_data
\* the loop goes on after every symbol, fetched or failed, and ends only when all
\* the missing symbols have been dealt with; a failed symbol is not in the table,
\* a fetched one is.  In load_all_data the three index fetchers are all called
\* whatever the earlier ones returned, and get_all_historical_data is called
\* before the cycle returns.
C11_FailuresDoNotAbortSiblings ==
    /\ InLoop =>
        /\ all.i - 1 = Len(all.new_coins) + Len(all.failed_coins)
        /\ Processed = Range(all.new_coins) \cup Range(all.failed_coins)
        /\ Range(all.failed_coins) \cap Table = {}
        /\ Range(all.new_coins) \subseteq Table
        /\ (pc = "all" /\ hist.phase = "done") =>
              /\ hist.symbol = all.missing_coins[all.i - 1]
              /\ hist.symbol \in Table <=> hist.result \in {"primary", "fallback", "cache"}
        /\ all.phase = "done" => Processed = Range(all.missing_coins)
    /\ (load.phase = "crypto" /\ all.phase = "none") =>
        /\ Called(ev, "get_sp500_data")
        /\ Called(ev, "get_vix_data")
        /\ Called(ev, "get_crypto_fear_greed")
    /\ CycleReturned => all.phase \in {"done", "raised"}

\* the S&P 500 fetch failed, BTC could not be fetched, ETH was fetched after it
C11_Witness ==
    /\ CycleReturned
    /\ load.result.sp500_data = None
    /\ load.result.vix_data # None
    /\ all.failed_coins = <<"BTC">>
    /\ all.new_coins = <<"ETH">>
    /\ Table = {"ETH"}

\* the messages load_all_data has for the crypto fetch
CryptoMessages ==
    {"Failed to fetch cryptocurrency data", "Failed to fetch cryptocurrency data: 'data'"}
StatusNamesCrypto(data_status) ==
    /\ ~data_status.success
    /\ \E i \in DOMAIN data_status.messages : data_status.messages[i] \in CryptoMessages

\* C12 as stated: when a symbol failed at both providers, the status the cycle
\* returns has success = false and a message for the failure.
C12_FailedSymbolInStatus ==
    (CycleReturned /\ all.failed_coins # <<>>) => StatusNamesCrypto(load.result.data_status)

\* the ranked-listing request of the last step failed: no listing came back
ListingFailed(events) ==
    \E i \in DOMAIN events :
        /\ events[i].e \in {"return", "raise"}
        /\ events[i].fn = "get_top_crypto_data"
        /\ events[i].e = "return" => events[i].src = "failure"
\* the listing request of the last step ended in an exception that left
\* get_top_crypto_data (a response without the expected fields: KeyError)
ListingRaised(events) ==
    \E i \in DOMAIN events :
        events[i].e = "raise" /\ events[i].fn = "get_top_crypto_data"
\* get_all_historical_data ended without a universe
NoUniverse == all.phase = "raised" \/ (all.phase = "done" /\ all.symbols = <<>>)
\* get_all_historical_data returned the empty table
ReturnedEmptyTable ==
    all.phase = "done" /\ all.symbols = <<>> /\ all.historical_data = EmptyDict

\* C13 as stated: when the ranked-listing fetch of get_all_historical_data fails
\* (no fresh cached listing, the request fails), no historical request is issued
\* to either provider and get_all_historical_data returns an empty table; the
\* cycle then returns an empty table and a status with success = false and a
\* message about the crypto fetch.
C13_ListingFailureReturnsEmptyTable ==
    /\ (load.phase = "crypto" /\ hist.phase = "none" /\ ListingFailed(ev)) =>
        /\ ReturnedEmptyTable
        /\ pc = "idle"
        /\ Requests(ev, "primary") = {}
        /\ Requests(ev, "fallback") = {}
    /\ (CycleReturned /\ NoUniverse) =>
        /\ load.result.crypto_historical_data = EmptyDict
        /\ load.session.crypto_historical_data = EmptyDict
        /\ StatusNamesCrypto(load.result.data_status)

\* C13, amended: when the ranked-listing fetch of get_all_historical_data fails,
\* no historical request is issued to either provider, and
\* get_all_historical_data returns an empty table when the request raised a
\* RequestException, but raises the KeyError of get_top_crypto_data when the
\* response lacks the expected fields; either way the cycle then returns an
\* empty table and a status with success = false and a message about the
\* crypto fetch.
C13_NoUniverseHaltsCycle ==
    /\ (load.phase = "crypto" /\ hist.phase = "none" /\ ListingFailed(ev)) =>
        /\ pc = "idle"
        /\ Requests(ev, "primary") = {}
        /\ Requests(ev, "fallback") = {}
        /\ all.historical_data = EmptyDict
        /\ (ListingRaised(ev) => all.phase = "raised")
        /\ (~ListingRaised(ev) => ReturnedEmptyTable)
    /\ (CycleReturned /\ NoUniverse) =>
        /\ load.result.crypto_historical_data = EmptyDict
        /\ load.session.crypto_historical_data = EmptyDict
        /\ StatusNamesCrypto(load.result.data_status)
    /\ (CycleReturned /\ all.phase = "raised") =>
        load.result.data_status.messages[Len(load.result.data_status.messages)]
            = "Failed to fetch cryptocurrency data: 'data'"

\* the index fetchers delivered, the listing request failed, the cycle returned
C13_Witness ==
    /\ CycleReturned
    /\ all.phase = "done" /\ all.symbols = <<>>
    /\ load.result.sp500_data # None
    /\ load.result.data_status =
          [success |-> FALSE, messages |-> <<"Failed to fetch cryptocurrency data">>]

\* the listing response lacked the expected fields: get_all_historical_data
\* raised, load_all_data caught the exception and the cycle returned
C13_WitnessRaised ==
    /\ CycleReturned
    /\ all.phase = "raised"
    /\ load.result.crypto_historical_data = EmptyDict
    /\ load.result.sp500_data # None
    /\ load.result.data_status =
          [success |-> FALSE,
           messages |-> <<"Failed to fetch cryptocurrency data: 'data'">>]

-----------------------------------------------------------------------------
\* Properties of get_all_historical_data (SpecAll)

\* C14: when get_all_historical_data finishes, every symbol of the universe is
\* in exactly one of cached_coins, new_coins, failed_coins; the keys of the
\* returned table are the cached and the newly fetched symbols; and the count of
\* symbols reported as not fetched is the number of failed symbols.
C14_OutcomesPartitionUniverse ==
    (all.phase = "done" /\ all.symbols # <<>>) =>
        LET cached == Range(all.cached_coins)
            new == Range(all.new_coins)
            failed == Range(all.failed_coins)
        IN  /\ Range(all.symbols) = cached \cup new \cup failed
            /\ cached \cap new = {} /\ cached \cap failed = {} /\ new \cap failed = {}
            /\ Len(all.symbols)
                 = Len(all.cached_coins) + Len(all.new_coins) + Len(all.failed_coins)
            /\ Table = cached \cup new
            /\ Len(all.historical_data.keys) = Cardinality(Table)
            /\ ev = <<EvReturn(AllFn, "", "table", all.historical_data)>>
            /\ all.missing_count = Len(all.failed_coins)

\* BTC came from the cache, ETH failed at both providers
C14_Witness ==
    /\ all.phase = "done"
    /\ all.symbols = <<"BTC", "ETH">>
    /\ all.cached_coins = <<"BTC">>
    /\ all.failed_coins = <<"ETH">>
    /\ all.missing_count = 1
    /\ Table = {"BTC"}

-----------------------------------------------------------------------------
\* Properties of the rate limiter (SpecLimiter)

\* the returns of wait() that fall in the 60 seconds beginning at t
InWindow(t) ==
    {i \in DOMAIN lim.completions :
        lim.completions[i] >= t /\ lim.completions[i] < t + WINDOW}

\* no call of wait() was begun while another was in progress: the calls form a
\* sequence, as the calls of the script do
Sequential == ~lim.overlapped

\* C15: for any sequence of calls of wait() on a limiter for N requests per
\* minute, at most N of the returns fall in any window of 60 seconds (a window
\* holds its beginning, not its end).
C15_AtMostNPerWindow ==
    (lim.phase = "ready" /\ Sequential) =>
        \A i \in DOMAIN lim.completions :
            Cardinality(InWindow(lim.completions[i])) <= lim.requests_per_minute

\* a sequence of more than N calls, N of which returned within 60 seconds
C15_Witness ==
    /\ lim.phase = "ready"
    /\ Sequential
    /\ Len(lim.completions) > lim.requests_per_minute
    /\ Cardinality(InWindow(lim.completions[1])) = lim.requests_per_minute

\* C16: in a sequence of calls of wait(), two consecutive returns are at least
\* 60/N seconds apart, whether the windowed cap made the caller sleep or not.
C16_ConsecutiveReturnsSpaced ==
    (lim.phase = "ready" /\ Sequential) =>
        \A i \in DOMAIN lim.completions :
            i > 1 => (lim.completions[i] - lim.completions[i - 1]) * lim.requests_per_minute
                        >= WINDOW

\* two calls in sequence whose returns are exactly 60/N apart
C16_Witness ==
    /\ lim.phase = "ready"
    /\ Sequential
    /\ Len(lim.completions) = 2
    /\ (lim.completions[2] - lim.completions[1]) * lim.requests_per_minute = WINDOW

\* in a sequence of calls the windowed cap never makes a caller sleep: the
\* interval sleeps alone keep N stamps at least 60 seconds apart
SequentialNeverCapped ==
    (lim.phase = "ready" /\ Sequential) => ~lim.capped /\ lim.raised = 0

\* what threads sharing the limiter can do to it, wait() taking no lock: two
\* callers pass the test of the window on one stamp and both append
ThreadsBothPass ==
    /\ lim.phase = "ready"
    /\ ~lim.capped
    /\ Len(lim.request_times) > lim.requests_per_minute
    /\ lim.request_times[Len(lim.request_times)] - lim.request_times[1] < WINDOW
\* ... and one of two callers purging the same stamp finds the deque empty
ThreadsRaise == lim.phase = "ready" /\ lim.raised > 0

-----------------------------------------------------------------------------
\* Requests and the rate limiter (Spec)

\* C17: every request an adapter sends (listing, primary, fallback, S&P 500,
\* VIX, sentiment) comes immediately after a call of rate_limiter.wait().
C17_EveryRequestAfterWait ==
    \A i \in DOMAIN ev :
        ev[i].e = "request" => i > 1 /\ ev[i - 1] = EvWait

-----------------------------------------------------------------------------
\* Properties of exponential_backoff (SpecBackoff)

\* C18: the delay before jitter, min(base_delay * 2^attempt, max_delay), does
\* not decrease from one attempt to the next and never exceeds max_delay; the
\* value returned lies between that delay and 1.1 times it.
C18_BackoffBounded ==
    calc.fn = "exponential_backoff" =>
        /\ calc.delay = Min(base_delay * Pow2(calc.attempt), max_delay)
        /\ calc.before <= calc.delay
        /\ calc.delay <= max_delay
        /\ calc.delay * MS <= calc.returned
        /\ 10 * calc.returned <= 11 * calc.delay * MS

\* an attempt after the cap was reached, with the largest jitter
C18_Witness ==
    /\ calc.fn = "exponential_backoff"
    /\ calc.attempt > 6
    /\ calc.before = max_delay
    /\ calc.delay = max_delay
    /\ 10 * calc.returned = 11 * calc.delay * MS

\* an attempt below the cap: the delay has doubled
C18_WitnessDoubling ==
    /\ calc.fn = "exponential_backoff"
    /\ calc.attempt = 3
    /\ calc.before = 4
    /\ calc.delay = 8
    /\ calc.returned > calc.delay * MS

-----------------------------------------------------------------------------
\* Properties of align_market_data (SpecAlign)

\* C20: every row of the table align_market_data returns is on a day from
\* Monday to Friday (weekday below 5), whatever the two input tables.
C20_AlignedRowsOnBusinessDays ==
    calc.fn = "align_market_data" =>
        \A d \in calc.aligned_data.index : DayOfWeek(d) < 5

\* rows are returned, and a weekend day on which crypto was observed inside the
\* span of the traditional-market table (forward fill pairs it) is not among them
C20_Witness ==
    /\ calc.fn = "align_market_data"
    /\ calc.aligned_data.index # {}
    /\ \E d \in calc.crypto_data.index :
          /\ DayOfWeek(d) >= 5
          /\ \E e \in calc.traditional_data.index : e < d
          /\ \E e \in calc.traditional_data.index : e > d
          /\ d \notin calc.aligned_data.index

-----------------------------------------------------------------------------
\* Properties of calculate_rolling_correlations (SpecRolling)

\* the paired observations up to day d: the rows of the aligned table to d
PairedUpTo(d) == Cardinality({e \in calc.aligned_data.index : e <= d})

\* a value is given for day d in some column
Emitted(d) == \E c \in calc.sp500_corr.columns : calc.sp500_corr.data[c][d] # NaN

\* C19: for a window W from 7 to 90, no rolling correlation is given for a
\* date up to which fewer than max(5, W/4) paired observations exist.
C19_NoValueBelowMinimum ==
    calc.fn = "calculate_rolling_correlations" =>
        \A d \in calc.sp500_corr.index :
            Emitted(d) => PairedUpTo(d) >= 5 /\ 4 * PairedUpTo(d) >= calc.window

\* what the code keeps to: no value with fewer than W // 2 paired observations
RollingMinimumIsHalfWindow ==
    calc.fn = "calculate_rolling_correlations" =>
        \A d \in calc.sp500_corr.index :
            Emitted(d) => PairedUpTo(d) >= calc.window \div 2

\* the default window gives a value once 15 rows are paired
RollingDefaultWindowEmits ==
    /\ calc.fn = "calculate_rolling_correlations"
    /\ calc.window = 30
    /\ \E d \in calc.sp500_corr.index : Emitted(d) /\ PairedUpTo(d) = 15

\* C21: in every row of the table align_market_data returns, every series of
\* the two inputs, crypto and traditional, has a value; no row with a missing
\* cell survives.
C21_AlignedRowsComplete ==
    calc.fn = "align_market_data" /\ calc.aligned_data.index # {} =>
        /\ calc.aligned_data.columns =
              calc.crypto_data.columns \cup calc.traditional_data.columns
        /\ \A d \in calc.aligned_data.index :
              \A c \in calc.aligned_data.columns : calc.aligned_data.data[c][d] # NaN

\* rows are returned, but not the weekday on which one crypto series had a row
\* without a value while the traditional-market table had begun
C21_Witness ==
    /\ calc.fn = "align_market_data"
    /\ calc.aligned_data.index # {}
    /\ "ETH" \in calc.crypto_data.columns
    /\ \E d \in calc.crypto_data.index :
          /\ DayOfWeek(d) < 5
          /\ calc.crypto_data.data["ETH"][d] = NaN
          /\ calc.crypto_data.data["BTC"][d] # NaN
          /\ \E e \in calc.traditional_data.index : e <= d
          /\ d \notin calc.aligned_data.index

\* the days up to d on which series c of the table df was observed
Observed(df, c, d) == {e \in df.index : e <= d /\ df.data[c][e] # NaN}

\* C22: a row for day d is returned only if every crypto series was observed on
\* day d itself, and each traditional-market value of the row is the latest
\* observation of its series on a day up to d, never one of a later day.
C22_NoCryptoFillNoLookAhead ==
    calc.fn = "align_market_data" =>
        \A d \in calc.aligned_data.index :
            /\ \A c \in calc.crypto_data.columns :
                  /\ d \in Observed(calc.crypto_data, c, d)
                  /\ calc.aligned_data.data[c][d] = calc.crypto_data.data[c][d]
            /\ \A c \in calc.traditional_data.columns :
                  /\ Observed(calc.traditional_data, c, d) # {}
                  /\ calc.aligned_data.data[c][d] =
                        calc.traditional_data.data[c][Last(Observed(calc.traditional_data, c, d))]

\* a returned row whose S&P 500 value is the one of an earlier day, although
\* the S&P 500 was observed again on a later day
C22_Witness ==
    /\ calc.fn = "align_market_data"
    /\ \E d \in calc.aligned_data.index :
          /\ d \notin calc.traditional_data.index
          /\ \E e \in calc.traditional_data.index : e > d
          /\ calc.aligned_data.data["SP500"][d] # NaN

-----------------------------------------------------------------------------
\* Properties of the category indices (SpecCorr)

CorrFns ==
    {"calculate_crypto_correlations", "calculate_category_correlations",
     "calculate_market_correlations", "calculate_rolling_correlations"}

\* the categories with a column in the table returned
CategoriesIn(table) ==
    {Categories[i] : i \in {j \in DOMAIN Categories :
        Categories[j] \in table.columns \/ (Categories[j] \o "_Index") \in table.columns}}

\* C23: none of the four correlation functions returns a column for a category
\* none of whose coins is in the universe.
C23_NoColumnForAbsentCategory ==
    calc.fn \in CorrFns =>
        \A category \in CategoriesIn(calc.result) :
            Range(CRYPTO_CATEGORIES[category]) \cap calc.universe # {}

\* the market correlations of a universe with coins of Layer1 and none of Meme:
\* a column for Layer1, none for Meme
C23_Witness ==
    /\ calc.fn = "calculate_market_correlations"
    /\ calc.universe = {"BTC", "ETH"}
    /\ CategoriesIn(calc.result) = {"Layer1"}

\* the mean of the returns of the coins on day d of the table of returns
MeanOfReturns(returns_df, coins, d) ==
    [num |-> SumSeq([i \in DOMAIN coins |-> Scaled(returns_df, coins[i], d)]),
     den |-> ReturnUnit * Len(coins)]

\* two fractions are the same number
SameNumber(a, b) == a.num * b.den = b.num * a.den

\* C24: in the coin, market and rolling correlations, the series correlated for
\* a category index is, on every date, the equal-weighted mean of the simple
\* returns of the category's coins that are in the universe.
C24_IndexIsMeanOfReturns ==
    calc.fn \in CorrFns \ {"calculate_category_correlations"} =>
        \A i \in DOMAIN Categories :
            LET name == Categories[i] \o "_Index"
                coins == AvailableCoins(Categories[i], calc.universe)
            IN  name \in calc.returns_df.columns =>
                    \A d \in calc.returns_df.index :
                        SameNumber(CHOOSE r \in calc.returns_df.data[name][d] : TRUE,
                                   MeanOfReturns(calc.returns_df, coins, d))

-----------------------------------------------------------------------------
\* Properties of get over malformed files (SpecForeign)

\* the file a malformed-entry case of get is about: missing, not valid JSON,
\* without 'data', or, when a staleness bound is given, without a 'timestamp'
\* that can be parsed
Malformed(c, max_age) ==
    \/ KindOf(c) \in {"missing", "garbled", "no_data"}
    \/ max_age # NoMaxAge /\ KindOf(c) \in {"no_timestamp", "bad_timestamp"}

\* C25: get never raises to the caller, and returns None for an entry that is
\* missing, is not valid JSON, lacks 'data', or lacks a parseable 'timestamp'
\* when a staleness bound is given.
C25_GetNeverRaises ==
    IsGet(ev) =>
        /\ ~IsRaised(ev[1].result)
        /\ Malformed(files[ev[1].key], ev[1].max_age_minutes) => ev[1].result = None

\* a get with a staleness bound over a file whose timestamp cannot be parsed
C25_Witness ==
    /\ IsGet(ev)
    /\ KindOf(files[ev[1].key]) = "bad_timestamp"
    /\ ev[1].max_age_minutes = MaxAge(INDEX_MAX_AGE)
    /\ ev[1].result = None

\* the same file read without a bound gives its payload: the timestamp is
\* looked at only when max_age_minutes is given
C25_WitnessNoBound ==
    /\ IsGet(ev)
    /\ KindOf(files[ev[1].key]) = "bad_timestamp"
    /\ ev[1].max_age_minutes = NoMaxAge
    /\ ev[1].result = files[ev[1].key].data

-----------------------------------------------------------------------------
\* Properties of a set that fails (SpecCache)

\* the operation just performed is a set that did not persist its record
IsFailedSet(events) ==
    Len(events) = 1 /\ events[1].e = "cache" /\ events[1].op = "set" /\ ~events[1].ok

\* C29: a set(k, v) that fails while persisting leaves the entry stored for k
\* as it was, so that a following get(k) returns the previous payload.
C29_FailedSetKeepsEntry ==
    [][IsFailedSet(ev') =>
          CacheGet(files', ev'[1].key, NoMaxAge, now')
              = CacheGet(files, ev'[1].key, NoMaxAge, now)]_vars

-----------------------------------------------------------------------------
\* Properties of the fetchers when the cache cannot be written (SpecFaulty)

\* the series a fetch returns for what it has handed to cache.set under key
FetchedSeries(key, cache_data) ==
    IF key = "crypto_prices"
    THEN Series(cache_data.keys,
                [i \in DOMAIN cache_data.vals |-> cache_data.vals[i].price],
                IF cache_data.keys = <<>> THEN "object" ELSE "float64")
    ELSE IF key \in {"sp500", "vix", "fear_greed"}
    THEN Series(cache_data.index, cache_data.values, "float64")
    ELSE FrameOfCache(cache_data)

\* C26: a cache.set that fails to persist does not raise, and the fetch that
\* called it returns the series it fetched, as it does when the write succeeds:
\* whatever became of the write, the call of set is followed at once by the
\* return of the fetched series.
C26_FailedWriteDoesNotBlockFetch ==
    \A i \in DOMAIN ev :
        ev[i].e = "cache.set" =>
            /\ i < Len(ev)
            /\ ev[i + 1] = EvReturn(ev[i + 1].fn, ev[i].key, "network",
                                    FetchedSeries(ev[i].key, ev[i].data))

\* a historical fetch whose write failed and that returned the fetched frame
C26_Witness ==
    /\ ~writable
    /\ \E i \in DOMAIN ev :
          /\ ev[i].e = "cache.set"
          /\ ev[i].key = HistKey("BTC")
          /\ ~IsEntry(files[ev[i].key])
          /\ ev[Len(ev)].e = "return"
          /\ ev[Len(ev)].fn = HistFn
          /\ ev[Len(ev)].value = FrameOfCache(ev[i].data)
          /\ ~IsEmpty(ev[Len(ev)].value)

-----------------------------------------------------------------------------
\* Frame of the fetchers on the cache (Spec)

IsReturn(event, key, src) ==
    event.e = "return" /\ event.key = key /\ event.src = src

\* C28: cache entries are written only by successful fetches: a step that
\* changes the file of a key holds the return of a successful network fetch of
\* that key, and a step in which the fetch of a key ends in failure leaves the
\* file of that key as it was.
C28_OnlySuccessfulFetchesWrite ==
    [][\A key \in Keys :
          /\ files'[key] # files[key] =>
                \E i \in DOMAIN ev' : IsReturn(ev'[i], key, "network")
          /\ (\E i \in DOMAIN ev' : IsReturn(ev'[i], key, "failure")) =>
                files'[key] = files[key]]_vars

\* an index fetch that failed over an expired entry, which is still there
C28_Witness ==
    /\ Len(ev) > 0
    /\ IsReturn(ev[Len(ev)], "sp500", "failure")
    /\ IsEntry(files["sp500"])
    /\ now - files["sp500"].timestamp > INDEX_MAX_AGE

-----------------------------------------------------------------------------
\* Empty inputs and empty alignments (SpecAnalysis)

\* a weekday on which every crypto series has a value of its own and every
\* traditional-market series a value of that day or carried from an earlier one
CommonWeekdays(crypto_data, traditional_data) ==
    {d \in crypto_data.index \cup traditional_data.index :
        /\ DayOfWeek(d) < 5
        /\ \A c \in crypto_data.columns : d \in Observed(crypto_data, c, d)
        /\ \A c \in traditional_data.columns : Observed(traditional_data, c, d) # {}}

\* C27: align_market_data returns an empty table whenever one of its inputs is
\* empty or no weekday has a value for every series, and
\* calculate_market_correlations and calculate_rolling_correlations, given an
\* empty alignment, return an empty table.
C27_EmptyAlignmentGivesEmptyTable ==
    /\ (/\ calc.fn = "align_market_data"
        /\ \/ FrameIsEmpty(calc.crypto_data)
           \/ FrameIsEmpty(calc.traditional_data)
           \/ CommonWeekdays(calc.crypto_data, calc.traditional_data) = {})
          => FrameIsEmpty(calc.aligned_data)
    /\ (/\ calc.fn \in {"calculate_market_correlations", "calculate_rolling_correlations"}
        /\ FrameIsEmpty(calc.aligned_data))
          => FrameIsEmpty(calc.result)

\* two tables with rows, the only common days on a weekend: nothing is returned
C27_Witness ==
    /\ calc.fn = "align_market_data"
    /\ \E d \in calc.crypto_data.index \cap calc.traditional_data.index :
          /\ DayOfWeek(d) >= 5
          /\ calc.crypto_data.data["BTC"][d] # NaN
          /\ calc.traditional_data.data["SP500"][d] # NaN
    /\ CommonWeekdays(calc.crypto_data, calc.traditional_data) = {}
    /\ FrameIsEmpty(calc.aligned_data)

\* the market correlations of a universe whose alignment kept no row: coins and
\* indicators were loaded, the table returned is empty
C27_WitnessMarket ==
    /\ calc.fn = "calculate_market_correlations"
    /\ calc.universe = {"BTC", "ETH"}
    /\ calc.aligned_data.columns # {}
    /\ calc.aligned_data.index = {}
    /\ FrameIsEmpty(calc.result)

\* the same for the rolling correlations
C27_WitnessRolling ==
    /\ calc.fn = "calculate_rolling_correlations"
    /\ calc.universe = {"BTC", "ETH"}
    /\ calc.aligned_data.columns # {}
    /\ calc.aligned_data.index = {}
    /\ FrameIsEmpty(calc.result)

-----------------------------------------------------------------------------
\* The status of reused data (SpecLoad)

\* load_all_data has just returned the data of the session, without a cycle
ReusedSession(l, events) ==
    /\ l.returned
    /\ ~l.refreshed
    /\ Len(events) = 1
    /\ events[1].e = "return" /\ events[1].fn = LoadFn /\ events[1].src = "session"

\* C30: when load_all_data returns the data of an earlier refresh cycle instead
\* of running a new one, the status it returns is the status that cycle
\* produced: the status returned with reused data is the one returned by the
\* call before, which returned the same data.
C30_ReusedDataKeepsStatus ==
    [][(load.returned /\ ReusedSession(load', ev')) =>
          load'.result.data_status = load.result.data_status]_vars

-----------------------------------------------------------------------------
\* The ranked listing served from the cache (Spec)

\* two series with the same labels in the same order and, label by label, the
\* same number (the dtype tells a series of numbers from a series of records)
SameSeries(a, b) ==
    /\ a.index = b.index
    /\ Len(a.values) > 0 => (a.dtype = b.dtype /\ a.values = b.values)

\* C31: get_top_crypto_data served from a fresh cache entry returns the series
\* that the network fetch which wrote the entry returned: the same symbols in
\* the same order, and for each symbol the same price.
C31_CachedListingEqualsFetched ==
    \A i \in DOMAIN ev :
        (ev[i].e = "return" /\ ev[i].fn = "get_top_crypto_data" /\ ev[i].src = "cache") =>
            SameSeries(ev[i].value,
                       FetchedSeries("crypto_prices", files["crypto_prices"].data))

-----------------------------------------------------------------------------
\* The index series are never short (SpecIndex)

IndexFns == {"get_sp500_data", "get_vix_data"}

\* C33: get_sp500_data and get_vix_data return None or a series of more than
\* 2 points, from the cache as from the network, and they never hand a payload
\* of 2 or fewer points to cache.set.
C33_IndexSeriesNeverShort ==
    \A i \in DOMAIN ev :
        /\ (ev[i].e = "return" /\ ev[i].fn \in IndexFns) =>
              (ev[i].value = None \/ Len(ev[i].value.values) > 2)
        /\ ev[i].e = "cache.set" => Len(ev[i].data.values) > 2

\* a fresh entry of two points or fewer was in the cache, the provider failed,
\* and the fetcher returned None rather than the short series
C33_Witness ==
    /\ Len(ev) > 0
    /\ ev[Len(ev)].e = "return"
    /\ ev[Len(ev)].fn = "get_sp500_data"
    /\ ev[Len(ev)].value = None
    /\ IsEntry(files["sp500"])
    /\ now - files["sp500"].timestamp <= INDEX_MAX_AGE
    /\ Len(files["sp500"].data.values) <= 2

\* a series of more than two points served from the cache
C33_WitnessServed ==
    /\ Len(ev) > 0
    /\ ev[Len(ev)].e = "return"
    /\ ev[Len(ev)].fn = "get_vix_data"
    /\ ev[Len(ev)].src = "cache"
    /\ Len(ev[Len(ev)].value.values) > 2

-----------------------------------------------------------------------------
\* When load_all_data runs a cycle (SpecRefresh)

\* the session holds the data of a cycle that ended at most 12 hours ago
SessionCurrent ==
    /\ load.session.data_loaded
    /\ load.session.last_update # {}
    /\ \A last_update \in load.session.last_update : now - last_update <= 12 * 60

\* load_all_data has just called the index and sentiment fetchers
CycleBegun == load.phase = "crypto" /\ all.phase = "none" /\ load.refreshed

\* C34: load_all_data runs a refresh cycle exactly when force_refresh is set,
\* or no cycle has completed in the session, or the last cycle completed more
\* than 12 hours ago, whatever the outcome of the last cycle; otherwise it calls
\* no fetcher and returns the values stored in the session as they are.
C34_RefreshExactlyWhenDue ==
    /\ CycleBegun => (load.force_refresh \/ ~SessionCurrent)
    /\ ReusedSession(load, ev) =>
          /\ ~load.force_refresh
          /\ SessionCurrent
          /\ load.result.sp500_data = load.session.sp500_data
          /\ load.result.vix_data = load.session.vix_data
          /\ load.result.fear_greed_data = load.session.fear_greed_data
          /\ load.result.crypto_historical_data = load.session.crypto_historical_data

\* after a cycle in which every source failed, a load 12 hours later to the
\* minute calls no fetcher and returns the stored values, all of them absent
C34_Witness ==
    /\ ReusedSession(load, ev)
    /\ load.session.last_update = {now - REFRESH_MINUTES}
    /\ load.result.sp500_data = None
    /\ load.result.vix_data = None
    /\ load.result.fear_greed_data = None
    /\ load.result.crypto_historical_data = EmptyDict

\* one minute later the load, not forced, runs a cycle
C34_WitnessExpired ==
    /\ CycleBegun
    /\ ~load.force_refresh
    /\ load.session.data_loaded
    /\ load.session.last_update = {now - REFRESH_MINUTES - 1}

-----------------------------------------------------------------------------
\* Joining by calendar day (SpecStamped)

\* the rows of a series on day d that hold a value
ObservedOn(series, d) ==
    {t \in series.index : DayOf(t) = d /\ series.data[t] # NaN}

\* the weekdays on which every series handed in was observed, at any hour
DaysObservedByAll(inputs) ==
    {d \in 0..(StampBase - 1) :
        /\ DayOfWeek(d) < 5
        /\ \A i \in DOMAIN inputs : ObservedOn(inputs[i].series, d) # {}}

\* C32: in calculate_market_correlations and calculate_rolling_correlations the
\* series are joined by calendar day: on a weekday on which every input series
\* was observed, at whatever time of day, the aligned table has a row, and the
\* row holds for each series its observation of that day.
C32_JoinedByCalendarDay ==
    calc.fn \in {"calculate_market_correlations", "calculate_rolling_correlations"} =>
        \A d \in DaysObservedByAll(calc.inputs) :
            /\ d \in calc.aligned_data.index
            /\ \A i \in DOMAIN calc.inputs :
                  LET series == calc.inputs[i].series
                      t == CHOOSE t \in ObservedOn(series, d) :
                               \A u \in ObservedOn(series, d) : HourOf(u) <= HourOf(t)
                  IN  calc.aligned_data.data[calc.inputs[i].name][d] = series.data[t]

\* what the join by calendar day gives when every series has the same hours:
\* the row of each common weekday is there
C32_SameHoursJoined ==
    /\ calc.fn = "calculate_market_correlations"
    /\ Len(calc.inputs) = 5
    /\ DaysObservedByAll(calc.inputs) # {}
    /\ calc.aligned_data.index = DaysObservedByAll(calc.inputs)

====
